---- MODULE Spec2Model ----
(***************************************************************************)
(* Backup / restore operations of the Onion desktop tools                  *)
(* (lib/backup_restore.py) as a state machine over an abstract filesystem. *)
(*                                                                         *)
(* A directory is a record [exists, files]; files maps each relative path  *)
(* below the directory (1..MaxPath, numbered in sorted path order) to the  *)
(* content of the regular file there, NoFile where there is none.          *)
(***************************************************************************)
EXTENDS Integers, Sequences, FiniteSets, TLC

\* ------------------------------------------------------------------ bounds
\* Relative file paths below one category directory: 1..MaxPath.
MaxPath == 2
\* Seconds the wall clock can show: 0..MaxClock.
MaxClock == 1
\* Longest category list a caller passes.
MaxLen == 2
\* Most entries a listed backup root holds.
MaxEntries == 3

\* --------------------------------------------------------------- constants
BACKUP_CATEGORIES ==
    [roms         |-> [label |-> "ROMs",             path |-> "Roms"],
     imgs         |-> [label |-> "Images (box art)", path |-> "Imgs"],
     saves        |-> [label |-> "Saves",            path |-> "Saves"],
     ra_config    |-> [label |-> "RetroArch config", path |-> "RetroArch/.retroarch"],
     bios         |-> [label |-> "BIOS",             path |-> "BIOS"],
     onion_config |-> [label |-> "Onion config",     path |-> ".tmp_update/config"]]

CategoryKeys == DOMAIN BACKUP_CATEGORIES
CategoryPaths == {BACKUP_CATEGORIES[k].path : k \in CategoryKeys}

\* -------------------------------------------------------------- filesystem
Paths == 1..MaxPath
NoFile == 0
\* What a failed copy2 may leave behind at the destination.
PartialFile == -1

NoDir == [exists |-> FALSE, files |-> [p \in Paths |-> NoFile]]
EmptyDir == [exists |-> TRUE, files |-> [p \in Paths |-> NoFile]]
EmptyTree == [c \in CategoryPaths |-> NoDir]

is_dir(d) == d.exists
is_file(d, p) == d.exists /\ d.files[p] # NoFile

\* Path.rglob("*") filtered by is_file: the regular files below a directory.
rglob_files(d) == {p \in Paths : is_file(d, p)}

RECURSIVE sorted(_)
sorted(S) ==
    IF S = {} THEN <<>>
    ELSE LET m == CHOOSE x \in S : \A y \in S : x <= y
         IN  <<m>> \o sorted(S \ {m})

\* --------------------------------------------------------------- helpers
IsSpace(ch) == ch \in {" ", "\n", "\t"}

RECURSIVE lstrip(_)
lstrip(s) == IF s # <<>> /\ IsSpace(Head(s)) THEN lstrip(Tail(s)) ELSE s

RECURSIVE rstrip(_)
rstrip(s) ==
    IF s # <<>> /\ IsSpace(s[Len(s)]) THEN rstrip(SubSeq(s, 1, Len(s) - 1)) ELSE s

\* str.strip() on a text held as a sequence of characters.
strip(s) == rstrip(lstrip(s))

\* Mutant: the stock marker is looked for before the Onion marker.
_detect_sd_state_stock_first(sd_mount) ==
    IF sd_mount.miyoo_app \/ sd_mount.miyoo THEN "stock"
    ELSE IF sd_mount.tmp_update THEN "onion"
    ELSE "unknown"

_detect_sd_state(sd_mount) ==
    IF sd_mount.tmp_update THEN "onion"
    ELSE IF sd_mount.miyoo_app \/ sd_mount.miyoo THEN "stock"
    ELSE "unknown"

\* A candidate version file: [isfile, readable, text].  The text is the
\* file's content; InvalidByte in it stands for a byte sequence that is not
\* UTF-8.
NoVersionFile == [isfile |-> FALSE, readable |-> TRUE, text |-> <<>>]

InvalidByte == "\\xff"

\* Whether bytes.decode("utf-8") accepts the content.
utf8_decodable(text) == \A i \in 1..Len(text) : text[i] # InvalidByte

\* The loop of _detect_onion_version over its candidates: the exception
\* that leaves it ("" when none) and the version it returns.  An OSError of
\* read_text is caught and the next candidate tried; a UnicodeDecodeError
\* is not caught.
RECURSIVE probe_candidates(_)
probe_candidates(candidates) ==
    IF candidates = <<>> THEN [raised |-> "", version |-> <<>>]
    ELSE LET c == Head(candidates)
         IN  IF ~c.isfile \/ ~c.readable
             THEN probe_candidates(Tail(candidates))
             ELSE IF ~utf8_decodable(c.text)
             THEN [raised |-> "UnicodeDecodeError", version |-> <<>>]
             ELSE IF strip(c.text) # <<>>
             THEN [raised |-> "", version |-> strip(c.text)]
             ELSE probe_candidates(Tail(candidates))

\* What _detect_onion_version returns, and what it raises instead.
_detect_onion_version(sd_mount) == probe_candidates(sd_mount.vfiles).version

_detect_onion_version_raises(sd_mount) == probe_candidates(sd_mount.vfiles).raised

count_files(directory) ==
    IF ~is_dir(directory) THEN 0 ELSE Cardinality(rglob_files(directory))

\* Mutant: the backslash is left in the version.
safe_version_keeps_backslash(version) ==
    [i \in 1..Len(version) |->
        IF version[i] \in {"/", " "} THEN "_" ELSE version[i]]

\* version.replace("/", "_").replace("\\", "_").replace(" ", "_")
safe_version(version) ==
    [i \in 1..Len(version) |->
        IF version[i] \in {"/", "\\", " "} THEN "_" ELSE version[i]]

\* The snapshot directory's name, as the tuple of its "_"-joined parts.
dir_name(timestamp, state, version) ==
    IF version # <<>> THEN <<timestamp, state, safe_version(version)>>
    ELSE <<timestamp, state>>

NoPath == <<>>

\* A text of no characters (Python's "").
EmptyText == <<>>

\* datetime.now().isoformat(): a text naming the second.
isoformat(now) == <<now>>

\* ------------------------------------------------------------ tree copier
NoFault == [kind |-> "none", at |-> 0, partial |-> FALSE]

\* Mutant: a file that cannot be copied is passed over and the loop goes on.
RECURSIVE copy_loop_keeps_going(_, _, _, _, _, _, _, _, _)
copy_loop_keeps_going(items, src, dst, copied, events, observed, _category, _files_done, env) ==
    IF items = <<>>
    THEN [dst |-> dst, copied |-> copied, raised |-> FALSE, events |-> events,
          observed |-> observed]
    ELSE LET relative == Head(items)
             dest     == [dst EXCEPT !.files[relative] = src.files[relative]]
         IN  IF env.fault.kind = "copy" /\ env.fault.at = _files_done + copied + 1
             THEN copy_loop_keeps_going(Tail(items), src, dst, copied + 1, events,
                                        observed, _category, _files_done, env)
             ELSE copy_loop_keeps_going(Tail(items), src, dest, copied + 1,
                            Append(events, <<_category, relative,
                                             _files_done + copied + 1,
                                             env.total_files>>),
                            Append(observed, dest),
                            _category, _files_done, env)

\* Mutant: the progress sink is called before the file is copied.
RECURSIVE copy_loop_reports_first(_, _, _, _, _, _, _, _, _)
copy_loop_reports_first(items, src, dst, copied, events, observed, _category, _files_done, env) ==
    IF items = <<>>
    THEN [dst |-> dst, copied |-> copied, raised |-> FALSE, events |-> events,
          observed |-> observed]
    ELSE LET relative == Head(items)
             dest     == [dst EXCEPT !.files[relative] = src.files[relative]]
         IN  IF env.fault.kind = "copy" /\ env.fault.at = _files_done + copied + 1
             THEN [dst    |-> IF env.fault.partial
                              THEN [dst EXCEPT !.files[relative] = PartialFile]
                              ELSE dst,
                   copied |-> copied, raised |-> TRUE,
                   events |-> Append(events, <<_category, relative,
                                               _files_done + copied + 1,
                                               env.total_files>>),
                   observed |-> Append(observed, dst)]
             ELSE copy_loop_reports_first(Tail(items), src, dest, copied + 1,
                            Append(events, <<_category, relative,
                                             _files_done + copied + 1,
                                             env.total_files>>),
                            Append(observed, dst),
                            _category, _files_done, env)

\* Mutant: the running count of the progress events restarts with each call.
RECURSIVE copy_loop_counts_per_call(_, _, _, _, _, _, _, _, _)
copy_loop_counts_per_call(items, src, dst, copied, events, observed, _category, _files_done, env) ==
    IF items = <<>>
    THEN [dst |-> dst, copied |-> copied, raised |-> FALSE, events |-> events,
          observed |-> observed]
    ELSE LET relative == Head(items)
             dest     == [dst EXCEPT !.files[relative] = src.files[relative]]
         IN  IF env.fault.kind = "copy" /\ env.fault.at = _files_done + copied + 1
             THEN [dst    |-> IF env.fault.partial
                              THEN [dst EXCEPT !.files[relative] = PartialFile]
                              ELSE dst,
                   copied |-> copied, raised |-> TRUE, events |-> events,
                   observed |-> observed]
             ELSE copy_loop_counts_per_call(Tail(items), src, dest, copied + 1,
                            Append(events, <<_category, relative, copied + 1,
                                             env.total_files>>),
                            Append(observed, dest),
                            _category, _files_done, env)

\* Mutant: when a copy fails the destination directory is emptied.
RECURSIVE copy_loop_rolls_back(_, _, _, _, _, _, _, _, _)
copy_loop_rolls_back(items, src, dst, copied, events, observed, _category, _files_done, env) ==
    IF items = <<>>
    THEN [dst |-> dst, copied |-> copied, raised |-> FALSE, events |-> events,
          observed |-> observed]
    ELSE LET relative == Head(items)
             dest     == [dst EXCEPT !.files[relative] = src.files[relative]]
         IN  IF env.fault.kind = "copy" /\ env.fault.at = _files_done + copied + 1
             THEN [dst    |-> [dst EXCEPT !.files = [p \in Paths |-> NoFile]],
                   copied |-> copied, raised |-> TRUE, events |-> events,
                   observed |-> observed]
             ELSE copy_loop_rolls_back(Tail(items), src, dest, copied + 1,
                            Append(events, <<_category, relative,
                                             _files_done + copied + 1,
                                             env.total_files>>),
                            Append(observed, dest),
                            _category, _files_done, env)

\* copy_tree_with_progress: the loop over sorted(src.rglob("*")).  The fault
\* names the copy2 call of the whole operation that raises, if any.  events
\* are the calls of the progress sink, observed the destination directory
\* as it is when each of them is made.
RECURSIVE copy_loop(_, _, _, _, _, _, _, _, _)
copy_loop(items, src, dst, copied, events, observed, _category, _files_done, env) ==
    IF items = <<>>
    THEN [dst |-> dst, copied |-> copied, raised |-> FALSE, events |-> events,
          observed |-> observed]
    ELSE LET relative == Head(items)
             dest     == [dst EXCEPT !.files[relative] = src.files[relative]]
         IN  IF env.fault.kind = "copy" /\ env.fault.at = _files_done + copied + 1
             THEN [dst    |-> IF env.fault.partial
                              THEN [dst EXCEPT !.files[relative] = PartialFile]
                              ELSE dst,
                   copied |-> copied, raised |-> TRUE, events |-> events,
                   observed |-> observed]
             ELSE copy_loop(Tail(items), src, dest, copied + 1,
                            Append(events, <<_category, relative,
                                             _files_done + copied + 1,
                                             env.total_files>>),
                            Append(observed, dest),
                            _category, _files_done, env)

copy_tree_with_progress(src, dst, _category, _files_done, env) ==
    IF ~is_dir(src)
    THEN [dst |-> dst, copied |-> 0, raised |-> FALSE, events |-> <<>>,
          observed |-> <<>>]
    ELSE copy_loop(sorted(rglob_files(src)), src,
                   [dst EXCEPT !.exists = TRUE], 0, <<>>, <<>>,
                   _category, _files_done, env)

\* ------------------------------------------------------------ backup root
\* The sidecar backup_info.json of a snapshot directory: kind says what
\* reading and parsing it gives, obj is the parsed JSON object.
NoInfo == [kind |-> "absent", obj |-> <<>>]
ObjectInfo(obj) == [kind |-> "object", obj |-> obj]

\* An entry of the backup root: a plain file, or a directory holding the
\* category trees and possibly a sidecar.
FileEntry == [isdir |-> FALSE, tree |-> EmptyTree, info |-> NoInfo]
NewSnapshot == [isdir |-> TRUE, tree |-> EmptyTree, info |-> NoInfo]

NoBackupDir == [exists |-> FALSE, entries |-> <<>>]

HasEntry(root, name) == root.exists /\ name \in DOMAIN root.entries

\* Path.mkdir(parents=True, exist_ok=True) of root / name, once it succeeded.
mkdir_snapshot(root, name) ==
    IF HasEntry(root, name) THEN root
    ELSE [exists  |-> TRUE,
          entries |-> [n \in (IF root.exists THEN DOMAIN root.entries ELSE {})
                                \cup {name} |->
                          IF n = name THEN NewSnapshot ELSE root.entries[n]]]

put_snapshot(root, name, entry) ==
    [root EXCEPT !.entries = [n \in DOMAIN root.entries |->
                                 IF n = name THEN entry ELSE root.entries[n]]]

Msg(text, files, cats, detail) ==
    [text |-> text, files |-> files, categories |-> cats, detail |-> detail]

\* ------------------------------------------------------------ create_backup
RECURSIVE sum_counts(_, _)
sum_counts(categories, tree) ==
    IF categories = <<>> THEN 0
    ELSE count_files(tree[BACKUP_CATEGORIES[Head(categories)].path])
         + sum_counts(Tail(categories), tree)

\* Mutant: a category whose source directory is missing is not skipped.
RECURSIVE create_backup_loop_no_skip(_, _, _, _, _, _, _)
create_backup_loop_no_skip(categories, sd_mount, snap, files_done, backed_up, events, env) ==
    IF categories = <<>>
    THEN [tree |-> snap, files_done |-> files_done, categories |-> backed_up,
          raised |-> FALSE, events |-> events]
    ELSE LET cat_key == Head(categories)
             path    == BACKUP_CATEGORIES[cat_key].path
             r       == copy_tree_with_progress(sd_mount.tree[path], snap[path],
                                                cat_key, files_done, env)
         IN  IF r.raised
             THEN [tree |-> [snap EXCEPT ![path] = r.dst],
                   files_done |-> files_done, categories |-> backed_up,
                   raised |-> TRUE, events |-> events \o r.events]
             ELSE create_backup_loop_no_skip(Tail(categories), sd_mount,
                                             [snap EXCEPT ![path] = r.dst],
                                             files_done + r.copied,
                                             Append(backed_up, cat_key),
                                             events \o r.events, env)

\* Mutant: the categories backed up are recorded newest first.
RECURSIVE create_backup_loop_prepends(_, _, _, _, _, _, _)
create_backup_loop_prepends(categories, sd_mount, snap, files_done, backed_up, events, env) ==
    IF categories = <<>>
    THEN [tree |-> snap, files_done |-> files_done, categories |-> backed_up,
          raised |-> FALSE, events |-> events]
    ELSE LET cat_key == Head(categories)
             path    == BACKUP_CATEGORIES[cat_key].path
             src_dir == sd_mount.tree[path]
         IN  IF ~is_dir(src_dir)
             THEN create_backup_loop_prepends(Tail(categories), sd_mount, snap,
                                     files_done, backed_up, events, env)
             ELSE LET r == copy_tree_with_progress(src_dir, snap[path], cat_key,
                                                   files_done, env)
                  IN  IF r.raised
                      THEN [tree |-> [snap EXCEPT ![path] = r.dst],
                            files_done |-> files_done, categories |-> backed_up,
                            raised |-> TRUE, events |-> events \o r.events]
                      ELSE create_backup_loop_prepends(Tail(categories), sd_mount,
                                              [snap EXCEPT ![path] = r.dst],
                                              files_done + r.copied,
                                              <<cat_key>> \o backed_up,
                                              events \o r.events, env)

\* The copy loop of create_backup (the body of its try block).
RECURSIVE create_backup_loop(_, _, _, _, _, _, _)
create_backup_loop(categories, sd_mount, snap, files_done, backed_up, events, env) ==
    IF categories = <<>>
    THEN [tree |-> snap, files_done |-> files_done, categories |-> backed_up,
          raised |-> FALSE, events |-> events]
    ELSE LET cat_key == Head(categories)
             path    == BACKUP_CATEGORIES[cat_key].path
             src_dir == sd_mount.tree[path]
         IN  IF ~is_dir(src_dir)
             THEN create_backup_loop(Tail(categories), sd_mount, snap,
                                     files_done, backed_up, events, env)
             ELSE LET r == copy_tree_with_progress(src_dir, snap[path], cat_key,
                                                   files_done, env)
                  IN  IF r.raised
                      THEN [tree |-> [snap EXCEPT ![path] = r.dst],
                            files_done |-> files_done, categories |-> backed_up,
                            raised |-> TRUE, events |-> events \o r.events]
                      ELSE create_backup_loop(Tail(categories), sd_mount,
                                              [snap EXCEPT ![path] = r.dst],
                                              files_done + r.copied,
                                              Append(backed_up, cat_key),
                                              events \o r.events, env)

invalid_categories(categories) ==
    SelectSeq(categories, LAMBDA c : c \notin CategoryKeys)

NoError == Msg("", 0, 0, <<>>)

\* Mutant: the empty list is not rejected.
backup_validation_allows_empty(sd_mount, categories) ==
    IF ~sd_mount.mounted
    THEN Msg("SD card mount point does not exist", 0, 0, <<>>)
    ELSE IF invalid_categories(categories) # <<>>
    THEN Msg("Unknown backup categories", 0, 0, invalid_categories(categories))
    ELSE NoError

\* The checks create_backup makes before it touches anything: the message
\* of the first one that fails, NoError when all pass.
backup_validation(sd_mount, categories) ==
    IF ~sd_mount.mounted
    THEN Msg("SD card mount point does not exist", 0, 0, <<>>)
    ELSE IF invalid_categories(categories) # <<>>
    THEN Msg("Unknown backup categories", 0, 0, invalid_categories(categories))
    ELSE IF categories = <<>>
    THEN Msg("No categories selected for backup.", 0, 0, <<>>)
    ELSE NoError

\* Mutant: total_files is the number of categories backed up.
backup_metadata_counts_categories(r, description, state, version, now) ==
    [date        |-> isoformat(now),
     categories  |-> r.categories,
     description |-> description,
     state       |-> state,
     version     |-> version,
     total_files |-> Len(r.categories)]

\* The metadata create_backup records, from what the copy loop returned.
backup_metadata(r, description, state, version, now) ==
    [date        |-> isoformat(now),
     categories  |-> r.categories,
     description |-> description,
     state       |-> state,
     version     |-> version,
     total_files |-> r.files_done]

\* Whether str.encode("utf-8") accepts the text, given as its code points:
\* a surrogate code point (U+D800..U+DFFF) has no UTF-8 encoding.
utf8_encodable(text) ==
    \A i \in 1..Len(text) : ~(55296 <= text[i] /\ text[i] <= 57343)

\* What info_path.write_text(json.dumps(metadata, ensure_ascii=False),
\* encoding="utf-8") raises: OSError when opening the file fails, else
\* UnicodeEncodeError when the text cannot be encoded, else OSError when the
\* write to disk fails, else nothing ("").
write_text_raises(metadata, fault) ==
    IF fault.kind = "info" /\ ~fault.partial THEN "OSError"
    ELSE IF ~utf8_encodable(metadata.description) THEN "UnicodeEncodeError"
    ELSE IF fault.kind = "info" THEN "OSError"
    ELSE ""

\* The snapshot after that write_text call.  A file that could not be
\* opened is left as it was; one opened and not written to the end holds
\* no JSON document.
write_backup_info(entry, metadata, fault) ==
    IF write_text_raises(metadata, fault) = ""
    THEN [entry EXCEPT !.info = ObjectInfo(metadata)]
    ELSE IF fault.kind = "info" /\ ~fault.partial
    THEN entry
    ELSE [entry EXCEPT !.info = [kind |-> "invalid", obj |-> <<>>]]

\* The returned tuple of a call that raised instead of returning.
NoReturn == <<FALSE, NoPath, Msg("", 0, 0, <<>>)>>

\* What create_backup returns once the copy loop has ended without an
\* exception; an OSError of the sidecar write is logged and nothing more.
backup_completed(backup_path, r, write_failed) ==
    <<TRUE, backup_path,
      Msg("Backup completed", r.files_done, Len(r.categories), <<>>)>>

\* What create_backup returns when the copy loop raised.
backup_failed(backup_path, r) ==
    <<FALSE, backup_path, Msg("Backup failed", 0, 0, <<"Exception">>)>>

\* create_backup(sd_mount, backup_dir, categories, description) called at
\* second `now` with `fault` the filesystem step that fails, if any.
\* Gives the returned tuple, the backup root afterwards and the progress
\* events emitted.
create_backup(sd_mount, backup_dir, categories, description, now, fault) ==
    IF backup_validation(sd_mount, categories) # NoError
    THEN [ret |-> <<FALSE, NoPath, backup_validation(sd_mount, categories)>>,
          backup_dir |-> backup_dir, events |-> <<>>, raised |-> ""]
    ELSE IF _detect_onion_version_raises(sd_mount) # ""
    THEN [ret |-> NoReturn, backup_dir |-> backup_dir, events |-> <<>>,
          raised |-> _detect_onion_version_raises(sd_mount)]
    ELSE
    LET state   == _detect_sd_state(sd_mount)
        version == _detect_onion_version(sd_mount)
        name    == dir_name(now, state, version)
    IN
    IF fault.kind = "mkdir"
       \/ (HasEntry(backup_dir, name) /\ ~backup_dir.entries[name].isdir)
    THEN [ret |-> <<FALSE, NoPath,
                    Msg("Failed to create backup directory", 0, 0, <<"OSError">>)>>,
          backup_dir |-> IF fault.kind = "mkdir" /\ fault.partial
                         THEN [backup_dir EXCEPT !.exists = TRUE]
                         ELSE backup_dir,
          events |-> <<>>, raised |-> ""]
    ELSE IF fault.kind = "count"
    THEN [ret |-> NoReturn, backup_dir |-> mkdir_snapshot(backup_dir, name),
          events |-> <<>>, raised |-> "PermissionError"]
    ELSE
    LET made        == mkdir_snapshot(backup_dir, name)
        total_files == sum_counts(categories, sd_mount.tree)
        env         == [fault |-> fault, total_files |-> total_files]
        r           == create_backup_loop(categories, sd_mount,
                                          made.entries[name].tree, 0, <<>>, <<>>, env)
        copied      == [made.entries[name] EXCEPT !.tree = r.tree]
        metadata    == backup_metadata(r, description, state, version, now)
        write       == write_text_raises(metadata, fault)
    IN
    IF r.raised
    THEN [ret |-> backup_failed(name, r),
          backup_dir |-> put_snapshot(made, name, copied),
          events |-> r.events, raised |-> ""]
    ELSE [ret |-> IF write \in {"", "OSError"}
                  THEN backup_completed(name, r, write = "OSError")
                  ELSE NoReturn,
          backup_dir |-> put_snapshot(made, name,
                            write_backup_info(copied, metadata, fault)),
          events |-> r.events,
          raised |-> IF write \in {"", "OSError"} THEN "" ELSE write]

\* ----------------------------------------------------------- restore_backup
\* Writing a category directory of the card; creating .tmp_update/config
\* creates .tmp_update with it (mkdir(parents=True)).
write_category(sd_mount, path, dir) ==
    [sd_mount EXCEPT !.tree[path] = dir,
                     !.tmp_update = @ \/ (path = ".tmp_update/config" /\ dir.exists)]

\* The copy loop of restore_backup (the body of its try block).
RECURSIVE restore_backup_loop(_, _, _, _, _, _, _)
restore_backup_loop(categories, snap, sd_mount, files_done, restored, events, env) ==
    IF categories = <<>>
    THEN [sd_mount |-> sd_mount, files_done |-> files_done, categories |-> restored,
          raised |-> FALSE, events |-> events]
    ELSE LET cat_key == Head(categories)
             path    == BACKUP_CATEGORIES[cat_key].path
             src_dir == snap[path]
         IN  IF ~is_dir(src_dir)
             THEN restore_backup_loop(Tail(categories), snap, sd_mount,
                                      files_done, restored, events, env)
             ELSE LET r == copy_tree_with_progress(src_dir, sd_mount.tree[path],
                                                   cat_key, files_done, env)
                  IN  IF r.raised
                      THEN [sd_mount |-> write_category(sd_mount, path, r.dst),
                            files_done |-> files_done, categories |-> restored,
                            raised |-> TRUE, events |-> events \o r.events]
                      ELSE restore_backup_loop(Tail(categories), snap,
                                               write_category(sd_mount, path, r.dst),
                                               files_done + r.copied,
                                               Append(restored, cat_key),
                                               events \o r.events, env)

\* Mutant: the target mount is not checked.
restore_backup_unchecked_mount(backup_dir, backup_path, sd_mount, categories, fault) ==
    LET unchanged(msg) ==
            [ret |-> <<FALSE, msg>>, sd_mount |-> sd_mount, events |-> <<>>,
             raised |-> ""]
    IN
    IF ~(HasEntry(backup_dir, backup_path) /\ backup_dir.entries[backup_path].isdir)
    THEN unchanged(Msg("Backup path does not exist", 0, 0, <<>>))
    ELSE IF invalid_categories(categories) # <<>>
    THEN unchanged(Msg("Unknown restore categories", 0, 0,
                       invalid_categories(categories)))
    ELSE IF categories = <<>>
    THEN unchanged(Msg("No categories selected for restore.", 0, 0, <<>>))
    ELSE
    LET snap == backup_dir.entries[backup_path].tree
        env  == [fault |-> fault, total_files |-> sum_counts(categories, snap)]
        r    == restore_backup_loop(categories, snap, sd_mount, 0, <<>>, <<>>, env)
    IN  [ret |-> <<~r.raised, Msg("Restore completed", r.files_done,
                                  Len(r.categories), <<>>)>>,
         sd_mount |-> r.sd_mount, events |-> r.events, raised |-> ""]

\* restore_backup(backup_path, sd_mount, categories); backup_path is the
\* name of an entry of the backup root.  Gives the returned tuple, the card
\* afterwards and the progress events.
restore_backup(backup_dir, backup_path, sd_mount, categories, fault) ==
    LET unchanged(msg) ==
            [ret |-> <<FALSE, msg>>, sd_mount |-> sd_mount, events |-> <<>>,
             raised |-> ""]
    IN
    IF ~(HasEntry(backup_dir, backup_path) /\ backup_dir.entries[backup_path].isdir)
    THEN unchanged(Msg("Backup path does not exist", 0, 0, <<>>))
    ELSE IF ~sd_mount.mounted
    THEN unchanged(Msg("SD card mount point does not exist", 0, 0, <<>>))
    ELSE IF invalid_categories(categories) # <<>>
    THEN unchanged(Msg("Unknown restore categories", 0, 0,
                       invalid_categories(categories)))
    ELSE IF categories = <<>>
    THEN unchanged(Msg("No categories selected for restore.", 0, 0, <<>>))
    ELSE IF fault.kind = "count"
    THEN [ret |-> <<FALSE, NoError>>, sd_mount |-> sd_mount, events |-> <<>>,
          raised |-> "PermissionError"]
    ELSE
    LET snap        == backup_dir.entries[backup_path].tree
        total_files == sum_counts(categories, snap)
        env         == [fault |-> fault, total_files |-> total_files]
        r           == restore_backup_loop(categories, snap, sd_mount, 0, <<>>, <<>>, env)
    IN
    IF r.raised
    THEN [ret |-> <<FALSE, Msg("Restore failed", 0, 0, <<"Exception">>)>>,
          sd_mount |-> r.sd_mount, events |-> r.events, raised |-> ""]
    ELSE [ret |-> <<TRUE, Msg("Restore completed", r.files_done,
                              Len(r.categories), <<>>)>>,
          sd_mount |-> r.sd_mount, events |-> r.events, raised |-> ""]

\* ------------------------------------------------------------- list_backups
\* Path ordering of snapshot directory names: part by part, a shorter name
\* first when it is a prefix of the longer one.
CharCode(ch) ==
    CASE ch = " "  -> 32
      [] ch = "."  -> 46
      [] ch = "/"  -> 47
      [] ch = "3"  -> 51
      [] ch = "4"  -> 52
      [] ch = "\\" -> 92
      [] ch = "_"  -> 95
      [] OTHER     -> 0

RECURSIVE text_less(_, _)
text_less(a, b) ==
    IF b = <<>> THEN FALSE
    ELSE IF a = <<>> THEN TRUE
    ELSE IF CharCode(Head(a)) # CharCode(Head(b))
         THEN CharCode(Head(a)) < CharCode(Head(b))
         ELSE text_less(Tail(a), Tail(b))

\* "onion" < "stock" < "unknown" as strings.
StateRank(state) ==
    CASE state = "onion" -> 1 [] state = "stock" -> 2 [] OTHER -> 3

name_less(a, b) ==
    IF a[1] # b[1] THEN a[1] < b[1]
    ELSE IF a[2] # b[2] THEN StateRank(a[2]) < StateRank(b[2])
    ELSE text_less(IF Len(a) > 2 THEN a[3] ELSE <<>>,
                   IF Len(b) > 2 THEN b[3] ELSE <<>>)

\* sorted(backup_dir.iterdir(), reverse=True)
RECURSIVE sorted_reverse(_)
sorted_reverse(S) ==
    IF S = {} THEN <<>>
    ELSE LET m == CHOOSE x \in S : \A y \in S \ {x} : name_less(y, x)
         IN  <<m>> \o sorted_reverse(S \ {m})

\* dict.get(key, default)
get(data, key, default) == IF key \in DOMAIN data THEN data[key] ELSE default

\* Mutant: the default of "state" is used for "version" too.
summary_record_unknown_version(entry_name, data) ==
    [path        |-> entry_name,
     date        |-> get(data, "date", EmptyText),
     categories  |-> get(data, "categories", <<>>),
     description |-> get(data, "description", EmptyText),
     state       |-> get(data, "state", "unknown"),
     version     |-> get(data, "version", <<"u", "n", "k", "n", "o", "w", "n">>)]

\* One record of the list list_backups returns.
summary_record(entry_name, data) ==
    [path        |-> entry_name,
     date        |-> get(data, "date", EmptyText),
     categories  |-> get(data, "categories", <<>>),
     description |-> get(data, "description", EmptyText),
     state       |-> get(data, "state", "unknown"),
     version     |-> get(data, "version", EmptyText)]

\* The loop of list_backups over the sorted entries.  raised names the
\* exception that escapes the function, "" when none does.
RECURSIVE list_backups_loop(_, _, _)
list_backups_loop(names, root, results) ==
    IF names = <<>> THEN [raised |-> "", ret |-> results]
    ELSE LET entry == root.entries[Head(names)]
             info  == entry.info
         IN  IF ~entry.isdir
             THEN list_backups_loop(Tail(names), root, results)
             ELSE IF info.kind = "absent"
             THEN list_backups_loop(Tail(names), root, results)
             ELSE IF info.kind = "unreadable"       \* OSError: caught
             THEN list_backups_loop(Tail(names), root, results)
             ELSE IF info.kind = "undecodable"      \* UnicodeDecodeError
             THEN [raised |-> "UnicodeDecodeError", ret |-> <<>>]
             ELSE IF info.kind = "invalid"          \* json.JSONDecodeError: caught
             THEN list_backups_loop(Tail(names), root, results)
             ELSE IF info.kind = "nonobject"        \* data.get on a list, a number ...
             THEN [raised |-> "AttributeError", ret |-> <<>>]
             ELSE list_backups_loop(Tail(names), root,
                                    Append(results, summary_record(Head(names), info.obj)))

\* Mutant: the entries are visited in ascending order.
list_backups_oldest_first(root) ==
    IF ~root.exists THEN [raised |-> "", ret |-> <<>>]
    ELSE LET names == sorted_reverse(DOMAIN root.entries)
         IN  list_backups_loop([i \in 1..Len(names) |-> names[Len(names) + 1 - i]],
                               root, <<>>)

list_backups(root) ==
    IF ~root.exists THEN [raised |-> "", ret |-> <<>>]
    ELSE list_backups_loop(sorted_reverse(DOMAIN root.entries), root, <<>>)

\* ----------------------------------------------------------- get_backup_size
\* st_size of a regular file: a truncated file is empty, any other file has
\* the length of its content.
st_size(content) == IF content = PartialFile THEN 0 ELSE content % 100

NoStatFault == [kind |-> "none", at |-> 0]

\* The inner loop of get_backup_size over the items of one category
\* directory.  `seen` counts the regular files inspected so far in the call;
\* stat names the one file, if any, whose metadata cannot be read, and the
\* call that meets the failure: item.is_file() (outside the try block) or
\* item.stat() (inside it).
RECURSIVE size_loop(_, _, _, _, _)
size_loop(items, cat_dir, seen, total, stat) ==
    IF items = <<>>
    THEN [total |-> total, seen |-> seen, raised |-> FALSE]
    ELSE IF stat.at = seen + 1 /\ stat.kind = "is_file"
    THEN [total |-> total, seen |-> seen + 1, raised |-> TRUE]
    ELSE size_loop(Tail(items), cat_dir, seen + 1,
                   IF stat.at = seen + 1 /\ stat.kind = "stat"
                   THEN total
                   ELSE total + st_size(cat_dir.files[Head(items)]),
                   stat)

RECURSIVE get_backup_size_loop(_, _, _, _, _)
get_backup_size_loop(categories, snap, seen, total, stat) ==
    IF categories = <<>>
    THEN [total |-> total, seen |-> seen, raised |-> FALSE]
    ELSE IF Head(categories) \notin CategoryKeys
    THEN get_backup_size_loop(Tail(categories), snap, seen, total, stat)
    ELSE LET cat_dir == snap[BACKUP_CATEGORIES[Head(categories)].path]
         IN  IF ~is_dir(cat_dir)
             THEN get_backup_size_loop(Tail(categories), snap, seen, total, stat)
             ELSE LET r == size_loop(sorted(rglob_files(cat_dir)), cat_dir,
                                     seen, total, stat)
                  IN  IF r.raised THEN r
                      ELSE get_backup_size_loop(Tail(categories), snap,
                                                r.seen, r.total, stat)

\* get_backup_size(backup_path, categories): the returned total and the
\* exception that leaves the function ("" when none).
get_backup_size(backup_dir, backup_path, categories, stat) ==
    LET snap == IF HasEntry(backup_dir, backup_path)
                   /\ backup_dir.entries[backup_path].isdir
                THEN backup_dir.entries[backup_path].tree
                ELSE EmptyTree
        r    == get_backup_size_loop(categories, snap, 0, 0, stat)
    IN  IF r.raised
        THEN [ret |-> 0, raised |-> "PermissionError"]
        ELSE [ret |-> r.total, raised |-> ""]

\* -------------------------------------------------- migrate_stock_to_onion
_STOCK_TO_ONION_MAPPINGS ==
    <<[stock |-> "RetroArch/.retroarch/saves",  onion |-> "Saves/CurrentProfile/saves"],
      [stock |-> "RetroArch/.retroarch/states", onion |-> "Saves/CurrentProfile/states"]>>

shared_dirs == <<"Roms", "BIOS", "Imgs">>

\* The directories of a card that a migration reads or writes.
MigratePaths ==
    {_STOCK_TO_ONION_MAPPINGS[i].stock : i \in 1..2}
    \cup {_STOCK_TO_ONION_MAPPINGS[i].onion : i \in 1..2}
    \cup {shared_dirs[i] : i \in 1..3}

\* A path that is no directory.
NoMount == [mounted |-> FALSE, tree |-> [c \in MigratePaths |-> NoDir]]

\* f"saves ({mapping['stock']})"
saves_label(stock) ==
    IF stock = "RetroArch/.retroarch/saves"
    THEN "saves (RetroArch/.retroarch/saves)"
    ELSE "saves (RetroArch/.retroarch/states)"

\* Mutant: a job is listed whether or not its source directory exists.
copy_jobs_unchecked(stock) ==
    [i \in 1..2 |-> [src   |-> _STOCK_TO_ONION_MAPPINGS[i].stock,
                     dst   |-> _STOCK_TO_ONION_MAPPINGS[i].onion,
                     label |-> saves_label(_STOCK_TO_ONION_MAPPINGS[i].stock)]]
    \o [i \in 1..3 |-> [src |-> shared_dirs[i], dst |-> shared_dirs[i],
                        label |-> shared_dirs[i]]]

\* Mutant: the save directories keep their stock path on the Onion card.
copy_jobs_not_remapped(stock) ==
    SelectSeq([i \in 1..2 |-> [src   |-> _STOCK_TO_ONION_MAPPINGS[i].stock,
                               dst   |-> _STOCK_TO_ONION_MAPPINGS[i].stock,
                               label |-> saves_label(_STOCK_TO_ONION_MAPPINGS[i].stock)]]
              \o [i \in 1..3 |-> [src |-> shared_dirs[i], dst |-> shared_dirs[i],
                                  label |-> shared_dirs[i]]],
              LAMBDA job : is_dir(stock.tree[job.src]))

\* The (src, dst, label) jobs of a migration: the remapped save
\* directories, then the shared ones, each only if it exists on the stock
\* card.
copy_jobs(stock) ==
    SelectSeq([i \in 1..2 |-> [src   |-> _STOCK_TO_ONION_MAPPINGS[i].stock,
                               dst   |-> _STOCK_TO_ONION_MAPPINGS[i].onion,
                               label |-> saves_label(_STOCK_TO_ONION_MAPPINGS[i].stock)]]
              \o [i \in 1..3 |-> [src |-> shared_dirs[i], dst |-> shared_dirs[i],
                                  label |-> shared_dirs[i]]],
              LAMBDA job : is_dir(stock.tree[job.src]))

RECURSIVE count_jobs(_, _)
count_jobs(jobs, stock) ==
    IF jobs = <<>> THEN 0
    ELSE count_files(stock.tree[Head(jobs).src]) + count_jobs(Tail(jobs), stock)

\* The copy loop of migrate_stock_to_onion (the body of its try block).
RECURSIVE migrate_loop(_, _, _, _, _, _)
migrate_loop(jobs, stock, onion, files_done, events, env) ==
    IF jobs = <<>>
    THEN [onion |-> onion, files_done |-> files_done, raised |-> FALSE,
          events |-> events]
    ELSE LET job == Head(jobs)
             r   == copy_tree_with_progress(stock.tree[job.src], onion.tree[job.dst],
                                            job.label, files_done, env)
         IN  IF r.raised
             THEN [onion |-> [onion EXCEPT !.tree[job.dst] = r.dst],
                   files_done |-> files_done, raised |-> TRUE,
                   events |-> events \o r.events]
             ELSE migrate_loop(Tail(jobs), stock,
                               [onion EXCEPT !.tree[job.dst] = r.dst],
                               files_done + r.copied, events \o r.events, env)

\* migrate_stock_to_onion(stock_mount, onion_mount) with `fault` the
\* filesystem step that fails, if any.  Gives the returned tuple, the Onion
\* card afterwards, the progress events, and the exception that leaves the
\* function ("" when none).
migrate_stock_to_onion(stock, onion, fault) ==
    LET returns(ok, msg) ==
            [ret |-> <<ok, msg>>, onion |-> onion, events |-> <<>>, raised |-> ""]
    IN
    IF ~stock.mounted
    THEN returns(FALSE, Msg("Stock SD mount point does not exist", 0, 0, <<>>))
    ELSE IF ~onion.mounted
    THEN returns(FALSE, Msg("Onion SD mount point does not exist", 0, 0, <<>>))
    ELSE IF copy_jobs(stock) = <<>>
    THEN returns(TRUE, Msg("Nothing to migrate", 0, 0, <<>>))
    ELSE IF fault.kind = "count"
    THEN [ret |-> <<FALSE, NoError>>, onion |-> onion, events |-> <<>>,
          raised |-> "PermissionError"]
    ELSE
    LET env == [fault |-> fault, total_files |-> count_jobs(copy_jobs(stock), stock)]
        r   == migrate_loop(copy_jobs(stock), stock, onion, 0, <<>>, env)
    IN  IF r.raised
        THEN [ret |-> <<FALSE, Msg("Migration failed", 0, 0, <<"Exception">>)>>,
              onion |-> r.onion, events |-> r.events, raised |-> ""]
        ELSE [ret |-> <<TRUE, Msg("Migration completed", r.files_done, 0, <<>>)>>,
              onion |-> r.onion, events |-> r.events, raised |-> ""]

\* ------------------------------------------------------------ extract_to_sd
\* A path is the sequence of its components below the filesystem root, a
\* component a sequence of characters.
DotDot == <<".", ".">>
Dot == <<".">>

\* Path.resolve() on a filesystem without symbolic links: "." is dropped,
\* ".." removes the component before it and is dropped at the root.
RECURSIVE normalise(_, _)
normalise(parts, acc) ==
    IF parts = <<>> THEN acc
    ELSE IF Head(parts) = DotDot
    THEN normalise(Tail(parts),
                   IF acc = <<>> THEN <<>> ELSE SubSeq(acc, 1, Len(acc) - 1))
    ELSE IF Head(parts) = Dot
    THEN normalise(Tail(parts), acc)
    ELSE normalise(Tail(parts), Append(acc, Head(parts)))

resolve(path) == normalise(path, <<>>)

\* sd_mount_point / member.filename: an absolute name replaces the mount.
joinpath(base, name) == IF name.abs THEN name.parts ELSE base \o name.parts

\* str(path): the text "/c1/c2/...", "/" for the root.
RECURSIVE str_tail(_)
str_tail(path) ==
    IF path = <<>> THEN <<>> ELSE <<"/">> \o Head(path) \o str_tail(Tail(path))

str(path) == IF path = <<>> THEN <<"/">> ELSE str_tail(path)

\* str.startswith
startswith(text, prefix) ==
    /\ Len(prefix) <= Len(text)
    /\ SubSeq(text, 1, Len(prefix)) = prefix

\* What exists at a path: "dir", "file" or "none".
kind_of(fs, path) ==
    IF \E e \in fs : e.path = path
    THEN (CHOOSE e \in fs : e.path = path).kind
    ELSE "none"

Ancestors(path) == {SubSeq(path, 1, n) : n \in 0..Len(path)}

\* Path.mkdir(parents=True, exist_ok=True): raises when the path or one of
\* its ancestors is a file.
mkdir_parents(fs, path) ==
    IF \E a \in Ancestors(path) : kind_of(fs, a) = "file"
    THEN [fs |-> fs, raised |-> TRUE]
    ELSE [fs |-> fs \cup {[path |-> a, kind |-> "dir", data |-> 0] :
                            a \in {b \in Ancestors(path) : kind_of(fs, b) = "none"}},
          raised |-> FALSE]

\* target.parent.mkdir(...) then open(target, "wb") and the copy of the
\* member's bytes: raises when the target is a directory.
write_member(fs, target, data) ==
    LET made == mkdir_parents(fs, SubSeq(target, 1, Len(target) - 1))
    IN  IF target = <<>> \/ made.raised \/ kind_of(made.fs, target) = "dir"
        THEN [fs |-> IF target = <<>> THEN fs ELSE made.fs, raised |-> TRUE]
        ELSE [fs |-> {e \in made.fs : e.path # target}
                     \cup {[path |-> target, kind |-> "file", data |-> data]},
              raised |-> FALSE]

\* The guard of extract_to_sd: the text of the resolved target starts with
\* the text of the resolved mount point.
is_safe_target(target, sd_mount_point) ==
    startswith(str(target), str(resolve(sd_mount_point)))

\* The loop of extract_to_sd over zf.infolist().
RECURSIVE extract_loop(_, _, _, _, _, _)
extract_loop(members, index, total_files, sd_mount_point, fs, events) ==
    IF index >= total_files
    THEN [fs |-> fs, events |-> events, raised |-> FALSE]
    ELSE LET member == members[index + 1]
             target == resolve(joinpath(sd_mount_point, member.filename))
         IN  IF ~is_safe_target(target, sd_mount_point)
             THEN extract_loop(members, index + 1, total_files, sd_mount_point,
                               fs, events)
             ELSE LET sunk == Append(events, <<member.filename, index, total_files>>)
                      r    == IF member.is_dir
                              THEN mkdir_parents(fs, target)
                              ELSE write_member(fs, target, member.data)
                  IN  IF r.raised
                      THEN [fs |-> r.fs, events |-> sunk, raised |-> TRUE]
                      ELSE extract_loop(members, index + 1, total_files,
                                        sd_mount_point, r.fs, sunk)

\* extract_to_sd(zip_path, sd_mount_point): zip is what lies at zip_path,
\* fs the filesystem.  Gives the returned tuple, the filesystem afterwards
\* and the progress events.
extract_to_sd(zip, sd_mount_point, fs) ==
    IF ~zip.is_file
    THEN [ret |-> <<FALSE, Msg("Zip file not found", 0, 0, <<>>)>>,
          fs |-> fs, events |-> <<>>]
    ELSE IF kind_of(fs, sd_mount_point) # "dir"
    THEN [ret |-> <<FALSE, Msg("SD card mount point does not exist", 0, 0, <<>>)>>,
          fs |-> fs, events |-> <<>>]
    ELSE IF ~zip.is_zip
    THEN [ret |-> <<FALSE, Msg("Invalid zip file", 0, 0, <<"BadZipFile">>)>>,
          fs |-> fs, events |-> <<>>]
    ELSE LET r == extract_loop(zip.members, 0, Len(zip.members), sd_mount_point,
                               fs, <<>>)
         IN  IF r.raised
             THEN [ret |-> <<FALSE, Msg("Extraction error", 0, 0, <<"OSError">>)>>,
                   fs |-> r.fs, events |-> r.events]
             ELSE [ret |-> <<TRUE, Msg("Extraction completed successfully.", 0, 0, <<>>)>>,
                   fs |-> r.fs, events |-> r.events]

\* ------------------------------------------------- sd_manager.detect_sd_state
\* os.listdir(mount_point): the names of the entries of a directory.
listdir(fs, path) ==
    {e.path[Len(e.path)] : e \in {x \in fs : /\ Len(x.path) = Len(path) + 1
                                              /\ SubSeq(x.path, 1, Len(path)) = path}}

\* The names detect_sd_state does not count as content.
SystemArtefacts ==
    {<<"System Volume Information">>, <<".Trash-1000">>, <<"$RECYCLE.BIN">>,
     <<".fseventsd">>, <<".Spotlight-V100">>}

\* sd_manager.detect_sd_state(mount_point); listable says whether
\* os.listdir succeeds on the mount point.
detect_sd_state(fs, mount_point, listable) ==
    IF kind_of(fs, mount_point) # "dir" THEN "unknown"
    ELSE IF ~listable THEN "unknown"
    ELSE IF listdir(fs, mount_point) \ SystemArtefacts = {} THEN "empty"
    ELSE IF <<".tmp_update">> \in listdir(fs, mount_point) THEN "onion"
    ELSE IF <<"miyoo">> \in listdir(fs, mount_point) THEN "stock"
    ELSE "unknown"

\* ------------------------------------------------------------------ inputs
\* A mounted card without firmware markers holding the given category tree.
Mount(tree) ==
    [mounted |-> TRUE, tmp_update |-> FALSE, miyoo |-> FALSE, miyoo_app |-> FALSE,
     vfiles |-> <<NoVersionFile, NoVersionFile, NoVersionFile>>, tree |-> tree]

\* A freshly formatted card.
Blank == Mount(EmptyTree)

\* A path that is no directory (the card is not mounted).
Unmounted == [Blank EXCEPT !.mounted = FALSE]

\* A directory holding files 1..n, each with a content of its own.
Files(n, tag) ==
    [exists |-> TRUE,
     files  |-> [p \in Paths |-> IF p <= n THEN 100 * tag + p ELSE NoFile]]

Layouts == {NoDir} \cup {Files(n, 1) : n \in 0..MaxPath}

VersionFile(text) == [isfile |-> TRUE, readable |-> TRUE, text |-> text]

OnionCard ==
    [Mount([EmptyTree EXCEPT !["Saves"] = Files(1, 1)])
        EXCEPT !.tmp_update = TRUE,
               !.vfiles = <<VersionFile(<<"4", ".", "3", "\n">>),
                            NoVersionFile, NoVersionFile>>]

StockCard ==
    [Mount([EmptyTree EXCEPT !["Roms"] = Files(1, 1)])
        EXCEPT !.miyoo = TRUE, !.miyoo_app = TRUE]

\* The cards a call may find mounted.
Cards ==
    {Unmounted, OnionCard, StockCard}
    \cup {Mount([EmptyTree EXCEPT !["Roms"] = r, !["Saves"] = s]) :
            r \in Layouts, s \in Layouts}

\* The card an earlier backup was taken from: other contents, more files.
EarlierCard ==
    Mount([EmptyTree EXCEPT !["Roms"] = Files(MaxPath, 2), !["Saves"] = Files(1, 2)])

\* Category keys callers pass: two recognised keys and one that is not.
PassedKeys == {"roms", "saves", "cheats"}

SeqsUpTo(S, n) == UNION {[1..k -> S] : k \in 0..n}

CategoryLists == SeqsUpTo(PassedKeys, MaxLen)

EarlierLists == {<<"roms">>, <<"saves", "roms">>}

\* Descriptions, as code points: "ok", and a text holding the lone surrogate
\* U+DC80 (as os.fsdecode gives for an undecodable byte).
Descriptions == {<<111, 107>>, <<56448>>}

Faults ==
    {NoFault}
    \cup {[kind |-> k, at |-> 0, partial |-> b] : k \in {"mkdir", "info"}, b \in BOOLEAN}
    \cup {[kind |-> "count", at |-> 0, partial |-> FALSE]}
    \cup {[kind |-> "copy", at |-> n, partial |-> b] :
            n \in 1..(MaxLen * MaxPath), b \in BOOLEAN}

\* A path under the backup root where nothing exists.
NoSuchPath == <<0, "missing">>

\* ------------------------------------------------------------------- state
VARIABLES
    clock,       \* the wall clock, in seconds
    sd,          \* the mounted SD card
    backup_dir,  \* the backup root
    log,         \* the calls made so far: name, arguments, state before and
                 \* after, returned value, progress events
    pc,          \* "ready": no call made yet; then "called", "restored", "sized"
    stock_mount, \* the stock card a migration reads
    onion_mount, \* the Onion card a migration writes
    disk         \* the directories and files an extraction sees, by path

vars == <<clock, sd, backup_dir, log, pc, stock_mount, onion_mount, disk>>

\* The record of create_backup called at second `now` on `card` with the
\* backup root `root`.
BackupRecord(card, root, categories, description, now, fault) ==
    LET r == create_backup(card, root, categories, description, now, fault)
    IN  [op     |-> "create_backup",
         args   |-> [categories |-> categories, description |-> description,
                     fault |-> fault],
         pre    |-> [clock |-> now, sd |-> card, backup_dir |-> root],
         post   |-> [sd |-> card, backup_dir |-> r.backup_dir],
         ret    |-> r.ret,
         events |-> r.events,
         raised |-> r.raised]

\* Whether the fault can happen in this call: the step it names is reached.
FaultApplies(fault, valid, n_files) ==
    \/ fault.kind = "none"
    \/ valid /\ fault.kind \in {"mkdir", "info"}
    \/ valid /\ fault.kind = "copy" /\ fault.at <= n_files
    \/ valid /\ fault.kind = "count" /\ n_files >= 1

ValidCall(mount, categories) ==
    mount.mounted /\ categories # <<>> /\ invalid_categories(categories) = <<>>

\* The histories a run starts from: nothing yet, or one earlier backup of
\* another card, taken at or before the present second.
Histories ==
    {<<>>} \cup
    {<<BackupRecord(EarlierCard, NoBackupDir, c, EmptyText, t, NoFault)>> :
        c \in EarlierLists, t \in 0..MaxClock}

Init ==
    /\ clock \in 0..MaxClock
    /\ sd \in Cards
    /\ log \in {h \in Histories : h # <<>> => h[1].pre.clock <= clock}
    /\ backup_dir = IF log = <<>> THEN NoBackupDir ELSE log[1].post.backup_dir
    /\ pc = "ready"
    /\ disk = {}
    /\ stock_mount = NoMount
    /\ onion_mount = NoMount

CreateBackup ==
    /\ pc = "ready"
    /\ \E categories \in CategoryLists, description \in Descriptions, fault \in Faults :
        LET rec == BackupRecord(sd, backup_dir, categories, description, clock, fault)
        IN  /\ FaultApplies(fault, ValidCall(sd, categories),
                            IF ValidCall(sd, categories)
                            THEN sum_counts(categories, sd.tree) ELSE 0)
            /\ backup_dir' = rec.post.backup_dir
            /\ log' = Append(log, rec)
    /\ pc' = "called"
    /\ UNCHANGED <<clock, sd, stock_mount, onion_mount, disk>>

RestoreRecord(root, backup_path, card, categories, fault) ==
    LET r == restore_backup(root, backup_path, card, categories, fault)
    IN  [op     |-> "restore_backup",
         args   |-> [backup_path |-> backup_path, categories |-> categories,
                     fault |-> fault],
         pre    |-> [clock |-> clock, sd |-> card, backup_dir |-> root],
         post   |-> [sd |-> r.sd_mount, backup_dir |-> root],
         ret    |-> r.ret,
         events |-> r.events,
         raised |-> r.raised]

SnapshotPaths == (IF backup_dir.exists THEN DOMAIN backup_dir.entries ELSE {})
                 \cup {NoSuchPath}

RestoreBackup ==
    /\ pc = "ready"
    /\ \E backup_path \in SnapshotPaths, categories \in CategoryLists, fault \in Faults :
        LET valid == /\ HasEntry(backup_dir, backup_path)
                     /\ ValidCall(sd, categories)
            rec   == RestoreRecord(backup_dir, backup_path, sd, categories, fault)
        IN  /\ fault.kind \in {"none", "copy", "count"}
            /\ FaultApplies(fault, valid,
                            IF valid
                            THEN sum_counts(categories,
                                            backup_dir.entries[backup_path].tree)
                            ELSE 0)
            /\ sd' = rec.post.sd
            /\ log' = Append(log, rec)
    /\ pc' = "called"
    /\ UNCHANGED <<clock, backup_dir, stock_mount, onion_mount, disk>>

Last == log[Len(log)]

\* After a successful backup: the card is formatted and the snapshot just
\* taken is restored onto it with the same category list.
RestoreOntoBlank ==
    /\ pc = "called"
    /\ Last.op = "create_backup"
    /\ Last.ret[1]
    /\ LET rec == RestoreRecord(backup_dir, Last.ret[2], Blank,
                                Last.args.categories, NoFault)
       IN  /\ sd' = rec.post.sd
           /\ log' = Append(log, rec)
    /\ pc' = "restored"
    /\ UNCHANGED <<clock, backup_dir, stock_mount, onion_mount, disk>>

\* The stat failures of a call: none, or the n-th file inspected fails, in
\* item.stat() (the file vanished after is_file) or already in
\* item.is_file() (its directory cannot be searched).
StatFaults ==
    {NoStatFault}
    \cup {[kind |-> k, at |-> n] : k \in {"stat", "is_file"}, n \in 1..(MaxLen * MaxPath)}

SizeRecord(root, backup_path, categories, stat) ==
    LET r == get_backup_size(root, backup_path, categories, stat)
    IN  [op     |-> "get_backup_size",
         args   |-> [backup_path |-> backup_path, categories |-> categories,
                     stat |-> stat],
         pre    |-> [clock |-> clock, sd |-> sd, backup_dir |-> root],
         post   |-> [sd |-> sd, backup_dir |-> root],
         ret    |-> r.ret,
         events |-> <<>>,
         raised |-> r.raised]

\* A stat failure is drawn only for a file the call inspects.
GetBackupSize ==
    /\ pc = "ready"
    /\ \E backup_path \in SnapshotPaths, categories \in CategoryLists, stat \in StatFaults :
        /\ stat.at <= get_backup_size_loop(categories,
                          IF HasEntry(backup_dir, backup_path)
                          THEN backup_dir.entries[backup_path].tree ELSE EmptyTree,
                          0, 0, NoStatFault).seen
        /\ log' = Append(log, SizeRecord(backup_dir, backup_path, categories, stat))
    /\ pc' = "sized"
    /\ UNCHANGED <<clock, sd, backup_dir, stock_mount, onion_mount, disk>>

Next == CreateBackup \/ RestoreBackup \/ RestoreOntoBlank \/ GetBackupSize

Spec == Init /\ [][Next]_vars

\* ------------------------------------------------- listing a backup root
\* The metadata of a sidecar as create_backup writes it.
FullMetadata ==
    backup_metadata([categories |-> <<"roms">>, files_done |-> 1],
                    <<111, 107>>, "onion", <<"4", ".", "3">>, 0)

\* The keys list_backups reads from a sidecar.
SummaryKeys == {"date", "categories", "description", "state", "version"}

\* The JSON objects a sidecar may hold: the full metadata, the metadata
\* without one of the keys list_backups reads, and {}.
SidecarObjects ==
    {FullMetadata, <<>>}
    \cup {[k \in DOMAIN FullMetadata \ {key} |-> FullMetadata[k]] : key \in SummaryKeys}

\* What may lie under a name of the backup root: a plain file, or a
\* directory without a sidecar, with one that cannot be read (OSError),
\* holds bytes that are not UTF-8, holds text that is not JSON, holds a JSON
\* value that is not an object, or holds a JSON object.
RootEntries ==
    {FileEntry}
    \cup {[NewSnapshot EXCEPT !.info = [kind |-> k, obj |-> <<>>]] :
            k \in {"absent", "unreadable", "undecodable", "invalid", "nonobject"}}
    \cup {[NewSnapshot EXCEPT !.info = ObjectInfo(obj)] : obj \in SidecarObjects}

\* The names found in a backup root, in ascending order.
RootNames == <<<<0, "onion">>, <<0, "onion", <<"4", ".", "3">>>>, <<0, "stock">>, <<1, "onion">>>>

\* A backup root holding the given entries under the given names.
BackupRoot(names, entries) == [exists |-> TRUE, entries |-> entries]

ListRecord(root) ==
    LET r == list_backups(root)
    IN  [op     |-> "list_backups",
         pre    |-> [backup_dir |-> root],
         post   |-> [backup_dir |-> root],
         ret    |-> r.ret,
         raised |-> r.raised]

InitList ==
    /\ clock = 0
    /\ sd = Unmounted
    /\ \/ backup_dir = NoBackupDir
       \/ \E names \in SUBSET {RootNames[i] : i \in 1..MaxEntries} :
             \E entries \in [names -> RootEntries] :
                backup_dir = BackupRoot(names, entries)
    /\ log = <<>>
    /\ pc = "ready"
    /\ disk = {}
    /\ stock_mount = NoMount
    /\ onion_mount = NoMount

ListBackups ==
    /\ pc = "ready"
    /\ log' = Append(log, ListRecord(backup_dir))
    /\ pc' = "called"
    /\ UNCHANGED <<clock, sd, backup_dir, stock_mount, onion_mount, disk>>

NextList == ListBackups

SpecList == InitList /\ [][NextList]_vars

\* ------------------------------------------- detecting state and version
\* What may lie at a candidate path of the version probe: nothing, a file
\* that cannot be read, bytes that are not UTF-8, an empty file, a file of
\* white space, and two version texts, the second with characters that are
\* unsafe in a file name.
VersionFiles ==
    {NoVersionFile,
     [isfile |-> TRUE, readable |-> FALSE, text |-> <<"9">>],
     VersionFile(<<InvalidByte>>),
     VersionFile(<<>>),
     VersionFile(<<" ", "\n">>),
     VersionFile(<<"4", ".", "3", "\n">>),
     VersionFile(<<" ", "4", " ", "3", "/", "x", "\\", "y", "\n">>)}

\* A mounted card with the given marker directories and candidate files,
\* holding one ROM.  miyoo/app lies in miyoo and the candidates in
\* .tmp_update.
MarkedCard(tmp_update, miyoo, miyoo_app, vfiles) ==
    [Mount([EmptyTree EXCEPT !["Roms"] = Files(1, 1)])
        EXCEPT !.tmp_update = tmp_update, !.miyoo = miyoo,
               !.miyoo_app = miyoo_app, !.vfiles = vfiles]

DetectRecord(op, card, ret, raised) ==
    [op |-> op, pre |-> [sd |-> card], ret |-> ret, raised |-> raised]

InitDetect ==
    /\ clock \in 0..MaxClock
    /\ \E tmp_update, miyoo, miyoo_app \in BOOLEAN :
         \E vfiles \in [1..3 -> VersionFiles] :
            /\ miyoo_app => miyoo
            /\ ~tmp_update => \A i \in 1..3 : vfiles[i] = NoVersionFile
            /\ sd = MarkedCard(tmp_update, miyoo, miyoo_app, vfiles)
    /\ backup_dir = NoBackupDir
    /\ log = <<>>
    /\ pc = "ready"
    /\ disk = {}
    /\ stock_mount = NoMount
    /\ onion_mount = NoMount

DetectState ==
    /\ pc = "ready"
    /\ log' = Append(log, DetectRecord("_detect_sd_state", sd, _detect_sd_state(sd), ""))
    /\ pc' = "called"
    /\ UNCHANGED <<clock, sd, backup_dir, stock_mount, onion_mount, disk>>

DetectVersion ==
    /\ pc = "ready"
    /\ log' = Append(log, DetectRecord("_detect_onion_version", sd,
                                       _detect_onion_version(sd),
                                       _detect_onion_version_raises(sd)))
    /\ pc' = "called"
    /\ UNCHANGED <<clock, sd, backup_dir, stock_mount, onion_mount, disk>>

\* create_backup of the ROMs of the card into a backup root that does not
\* exist yet.
BackupMarkedCard ==
    /\ pc = "ready"
    /\ LET rec == BackupRecord(sd, backup_dir, <<"roms">>, <<111, 107>>, clock, NoFault)
       IN  /\ backup_dir' = rec.post.backup_dir
           /\ log' = Append(log, rec)
    /\ pc' = "called"
    /\ UNCHANGED <<clock, sd, stock_mount, onion_mount, disk>>

NextDetect == DetectState \/ DetectVersion \/ BackupMarkedCard

SpecDetect == InitDetect /\ [][NextDetect]_vars

\* ------------------------------------------------------- migrating a card
\* A mounted card holding the given directories and nothing else.
MigrateCard(dirs) ==
    [mounted |-> TRUE,
     tree    |-> [c \in MigratePaths |-> IF c \in DOMAIN dirs THEN dirs[c] ELSE NoDir]]

\* Stock cards: any mix of the five recognised directories.
StockMounts ==
    {NoMount}
    \cup {MigrateCard([c \in MigratePaths |->
                CASE c = "RetroArch/.retroarch/saves"  -> saves
                  [] c = "RetroArch/.retroarch/states" -> states
                  [] c = "Roms"                        -> roms
                  [] c = "BIOS"                        -> bios
                  [] c = "Imgs"                        -> imgs
                  [] OTHER                             -> NoDir]) :
            saves \in Layouts, states \in {NoDir, Files(1, 1)},
            roms \in {NoDir, Files(1, 1)}, bios \in {NoDir, EmptyDir},
            imgs \in {NoDir, Files(1, 1)}}

\* Onion cards: not mounted, empty, and with saves or ROMs of their own.
OnionMounts ==
    {NoMount,
     MigrateCard(<<>>),
     MigrateCard([c \in {"Saves/CurrentProfile/saves"} |-> Files(MaxPath, 2)]),
     MigrateCard([c \in {"Roms"} |-> Files(1, 2)])}

MigrateFaults ==
    {NoFault, [kind |-> "count", at |-> 0, partial |-> FALSE]}
    \cup {[kind |-> "copy", at |-> n, partial |-> b] :
            n \in 1..(MaxPath + 1), b \in BOOLEAN}

MigrateRecord(stock, onion, fault) ==
    LET r == migrate_stock_to_onion(stock, onion, fault)
    IN  [op     |-> "migrate_stock_to_onion",
         args   |-> [fault |-> fault],
         pre    |-> [stock_mount |-> stock, onion_mount |-> onion],
         post   |-> [stock_mount |-> stock, onion_mount |-> r.onion],
         ret    |-> r.ret,
         events |-> r.events,
         raised |-> r.raised]

InitMigrate ==
    /\ clock = 0
    /\ sd = Unmounted
    /\ backup_dir = NoBackupDir
    /\ log = <<>>
    /\ pc = "ready"
    /\ disk = {}
    /\ stock_mount \in StockMounts
    /\ onion_mount \in OnionMounts

\* A fault is drawn only where the step it names is reached: the count
\* when there is a file to count, the n-th copy when there are n files.
Migrate ==
    /\ pc = "ready"
    /\ \E fault \in MigrateFaults :
        LET rec   == MigrateRecord(stock_mount, onion_mount, fault)
            files == count_jobs(copy_jobs(stock_mount), stock_mount)
        IN  /\ FaultApplies(fault, stock_mount.mounted /\ onion_mount.mounted, files)
            /\ onion_mount' = rec.post.onion_mount
            /\ log' = Append(log, rec)
    /\ pc' = "called"
    /\ UNCHANGED <<clock, sd, backup_dir, stock_mount, disk>>

NextMigrate == Migrate

SpecMigrate == InitMigrate /\ [][NextMigrate]_vars

\* ------------------------------------------- the three copying operations
\* One call of any operation of the module, on a card and backup root or
\* on a pair of cards.
InitOps == Init \/ InitMigrate

NextOps == CreateBackup \/ RestoreBackup \/ RestoreOntoBlank \/ GetBackupSize \/ Migrate

SpecOps == InitOps /\ [][NextOps]_vars

\* ------------------------------------------------------- copying one tree
\* The largest _files_done a caller passes.
MaxDone == 2

Labels == {"roms", "saves (RetroArch/.retroarch/saves)"}

CopyRecord(src, dst, _category, _files_done, _total_files, fault) ==
    LET r == copy_tree_with_progress(src, dst, _category, _files_done,
                                     [fault |-> fault, total_files |-> _total_files])
    IN  [op       |-> "copy_tree_with_progress",
         args     |-> [_category |-> _category, _files_done |-> _files_done,
                       _total_files |-> _total_files, fault |-> fault],
         pre      |-> [src |-> src, dst |-> dst],
         post     |-> [src |-> src, dst |-> r.dst],
         ret      |-> r.copied,
         events   |-> r.events,
         observed |-> r.observed,
         raised   |-> IF r.raised THEN "OSError" ELSE ""]

\* The source is the stock card's Roms directory, the destination the
\* Onion card's: missing, empty, or holding other files at the same paths.
InitCopy ==
    /\ clock = 0
    /\ sd = Unmounted
    /\ backup_dir = NoBackupDir
    /\ log = <<>>
    /\ pc = "ready"
    /\ disk = {}
    /\ stock_mount \in {MigrateCard([c \in {"Roms"} |-> d]) : d \in Layouts}
    /\ onion_mount \in {MigrateCard([c \in {"Roms"} |-> d]) :
                            d \in {NoDir, EmptyDir, Files(MaxPath, 2)}}

\* One call with any label and counts; a copy2 failure is drawn only for a
\* file of this call.
CopyTree ==
    /\ pc = "ready"
    /\ \E _category \in Labels, _files_done \in 0..MaxDone,
          _total_files \in 0..(MaxDone + MaxPath), fault \in Faults :
        LET src == stock_mount.tree["Roms"]
            rec == CopyRecord(src, onion_mount.tree["Roms"], _category,
                              _files_done, _total_files, fault)
        IN  /\ \/ fault.kind = "none"
               \/ /\ fault.kind = "copy"
                  /\ fault.at > _files_done
                  /\ fault.at <= _files_done + count_files(src)
            /\ onion_mount' = [onion_mount EXCEPT !.tree["Roms"] = rec.post.dst]
            /\ log' = Append(log, rec)
    /\ pc' = "called"
    /\ UNCHANGED <<clock, sd, backup_dir, stock_mount, disk>>

NextCopy == CopyTree

SpecCopy == InitCopy /\ [][NextCopy]_vars

\* ---------------------------------------------------- extracting an archive
\* The largest number of members of an archive.
MaxMembers == 2

\* The mount point /m/sd and a sibling directory /m/sd2.
MountPoint == <<<<"m">>, <<"s", "d">>>>
Sibling == <<<<"m">>, <<"s", "d", "2">>>>

Dir(path) == [path |-> path, kind |-> "dir", data |-> 0]

Relative(parts) == [abs |-> FALSE, parts |-> parts]
Absolute(parts) == [abs |-> TRUE, parts |-> parts]

\* Member names: plain and nested names, a directory, names with "..", an
\* absolute name, names that reach /m/sd2 and /m/other, and the mount root.
MemberNames ==
    {Relative(<<<<"o">>>>),
     Relative(<<<<"a">>, <<"b">>>>),
     Relative(<<<<"a">>, DotDot, <<"o">>>>),
     Relative(<<<<"a">>, DotDot>>),
     Relative(<<DotDot, <<"s", "d", "2">>, <<"e">>>>),
     Relative(<<DotDot, <<"o">>, <<"e">>>>),
     Relative(<<DotDot, DotDot, DotDot, <<"e">>>>),
     Absolute(<<<<"m">>, <<"s", "d">>, <<"o">>>>),
     Absolute(<<<<"e">>>>)}

\* A member is a directory when its name ends in "/"; only file members
\* carry bytes.
Members ==
    {[filename |-> f, is_dir |-> FALSE, data |-> 1] : f \in MemberNames}
    \cup {[filename |-> f, is_dir |-> TRUE, data |-> 0] :
            f \in {Relative(<<<<"a">>>>),
                   Relative(<<DotDot, <<"s", "d", "2">>, <<"d">>>>)}}

Archives ==
    {[is_file |-> FALSE, is_zip |-> FALSE, members |-> <<>>],
     [is_file |-> TRUE, is_zip |-> FALSE, members |-> <<>>]}
    \cup {[is_file |-> TRUE, is_zip |-> TRUE, members |-> m] :
            m \in UNION {[1..n -> Members] : n \in 0..MaxMembers}}

ExtractRecord(zip, fs) ==
    LET r == extract_to_sd(zip, MountPoint, fs)
    IN  [op     |-> "extract_to_sd",
         args   |-> [zip |-> zip, sd_mount_point |-> MountPoint],
         pre    |-> [disk |-> fs],
         post   |-> [disk |-> r.fs],
         ret    |-> r.ret,
         events |-> r.events,
         raised |-> ""]

\* The filesystem holds /, /m and possibly the mount point, the sibling
\* directory, and a file of the card.
InitExtract ==
    /\ clock = 0
    /\ sd = Unmounted
    /\ backup_dir = NoBackupDir
    /\ log = <<>>
    /\ pc = "ready"
    /\ stock_mount = NoMount
    /\ onion_mount = NoMount
    /\ \E mount \in SUBSET {Dir(MountPoint)}, sibling \in SUBSET {Dir(Sibling)},
          file \in SUBSET {[path |-> Append(MountPoint, <<"o">>), kind |-> "file",
                            data |-> 2]} :
        /\ (file # {} => mount # {})
        /\ disk = {Dir(<<>>), Dir(<<<<"m">>>>)} \cup mount \cup sibling \cup file

ExtractToSd ==
    /\ pc = "ready"
    /\ \E zip \in Archives :
        LET rec == ExtractRecord(zip, disk)
        IN  /\ disk' = rec.post.disk
            /\ log' = Append(log, rec)
    /\ pc' = "called"
    /\ UNCHANGED <<clock, sd, backup_dir, stock_mount, onion_mount>>

NextExtract == ExtractToSd

SpecExtract == InitExtract /\ [][NextExtract]_vars

\* ------------------------------------------------------ the two detectors
Entry(path, kind) == [path |-> path, kind |-> kind, data |-> 0]

\* The top-level names a card may hold, each as a directory or as a
\* regular file; miyoo may hold app.
RootNames30 == {<<".tmp_update">>, <<"miyoo">>, <<"Roms">>, <<"System Volume Information">>}

\* The card as backup_restore sees it at a mount point of a filesystem: its
\* marker tests are Path.is_dir() tests.
card_at(fs, mount_point) ==
    [Blank EXCEPT
        !.mounted    = kind_of(fs, mount_point) = "dir",
        !.tmp_update = kind_of(fs, Append(mount_point, <<".tmp_update">>)) = "dir",
        !.miyoo      = kind_of(fs, Append(mount_point, <<"miyoo">>)) = "dir",
        !.miyoo_app  = kind_of(fs, mount_point \o <<<<"miyoo">>, <<"app">>>>) = "dir"]

AgreeRecord(fs, listable) ==
    [op     |-> "detect_sd_state",
     args   |-> [mount_point |-> MountPoint, listable |-> listable],
     pre    |-> [disk |-> fs, sd |-> card_at(fs, MountPoint)],
     ret    |-> detect_sd_state(fs, MountPoint, listable),
     backup |-> _detect_sd_state(card_at(fs, MountPoint)),
     events |-> <<>>,
     raised |-> ""]

InitAgree ==
    /\ clock = 0
    /\ backup_dir = NoBackupDir
    /\ log = <<>>
    /\ pc = "ready"
    /\ stock_mount = NoMount
    /\ onion_mount = NoMount
    /\ \E kinds \in [RootNames30 -> {"none", "dir", "file"}], app, mounted \in BOOLEAN :
        /\ app => kinds[<<"miyoo">>] = "dir"
        /\ disk = {Dir(<<>>), Dir(<<<<"m">>>>)}
                  \cup (IF mounted
                        THEN {Dir(MountPoint)}
                             \cup {Entry(Append(MountPoint, n), kinds[n]) :
                                     n \in {x \in RootNames30 : kinds[x] # "none"}}
                             \cup (IF app
                                   THEN {Dir(MountPoint \o <<<<"miyoo">>, <<"app">>>>)}
                                   ELSE {})
                        ELSE {})
    /\ sd = card_at(disk, MountPoint)

\* Both detectors are asked about the card at the mount point.
DetectBoth ==
    /\ pc = "ready"
    /\ \E listable \in BOOLEAN :
        log' = Append(log, AgreeRecord(disk, listable))
    /\ pc' = "called"
    /\ UNCHANGED <<clock, sd, backup_dir, stock_mount, onion_mount, disk>>

NextAgree == DetectBoth

SpecAgree == InitAgree /\ [][NextAgree]_vars

\* -------------------------------------------------------- emulator_manager
PACKAGE_DATA_DIR == <<<<"App">>, <<"PackageManager">>, <<"data">>>>
PACKAGE_TYPES == <<"Emu", "RApp", "App">>

\* str.lower() on the package types passed.
lower(package_type) ==
    CASE package_type = "Emu" -> "emu"
      [] package_type = "EMU" -> "emu"
      [] OTHER -> package_type

\* _resolve_type_dir: the directory name of a short type, "" for None.
_resolve_type_dir(package_type) ==
    CASE lower(package_type) = "emu"  -> "Emu"
      [] lower(package_type) = "rapp" -> "RApp"
      [] lower(package_type) = "app"  -> "App"
      [] OTHER -> ""

\* _TYPE_MAP
_TYPE_MAP(type_dir) ==
    CASE type_dir = "Emu" -> "emu" [] type_dir = "RApp" -> "rapp" [] OTHER -> "app"

parent_of(path) == IF path = <<>> THEN <<>> ELSE SubSeq(path, 1, Len(path) - 1)

\* The lookup the operating system makes for base / parts: every component
\* is looked up in the directory reached so far, ".." leads to its parent.
\* Gives whether the path names something, and where it is.
RECURSIVE walk(_, _, _)
walk(fs, cur, parts) ==
    IF parts = <<>> THEN [ok |-> kind_of(fs, cur) # "none", path |-> cur]
    ELSE IF kind_of(fs, cur) # "dir" THEN [ok |-> FALSE, path |-> cur]
    ELSE walk(fs, IF Head(parts) = DotDot THEN parent_of(cur)
                  ELSE Append(cur, Head(parts)),
              Tail(parts))

\* Path.is_dir() of base / parts.
path_is_dir(fs, base, parts) ==
    walk(fs, base, parts).ok /\ kind_of(fs, walk(fs, base, parts).path) = "dir"

\* Path.mkdir(parents=True, exist_ok=True) of base / parts: the missing
\* directories along the path are created; a file on the way raises.
RECURSIVE mkdir_along(_, _, _)
mkdir_along(fs, cur, parts) ==
    IF kind_of(fs, cur) = "file" THEN [fs |-> fs, raised |-> TRUE]
    ELSE LET made == fs \cup (IF kind_of(fs, cur) = "none"
                              THEN {[path |-> cur, kind |-> "dir", data |-> 0]}
                              ELSE {})
         IN  IF parts = <<>> THEN [fs |-> made, raised |-> FALSE]
             ELSE mkdir_along(made, IF Head(parts) = DotDot THEN parent_of(cur)
                                    ELSE Append(cur, Head(parts)),
                              Tail(parts))

IsUnder(path, top) == Len(path) >= Len(top) /\ SubSeq(path, 1, Len(top)) = top

\* shutil.copytree(src, dst): dst must not exist; it is created and the
\* tree under src copied into it.  With fault the copy fails after dst was
\* created.
copytree(fs, src, dst, base, dst_parts, fault) ==
    IF walk(fs, base, dst_parts).ok \/ ~walk(fs, base, parent_of(dst_parts)).ok
    THEN [fs |-> fs, raised |-> TRUE]
    ELSE IF fault
    THEN [fs |-> fs \cup {[path |-> dst, kind |-> "dir", data |-> 0]}, raised |-> TRUE]
    ELSE [fs |-> fs \cup {[path |-> dst \o SubSeq(e.path, Len(src) + 1, Len(e.path)),
                           kind |-> e.kind, data |-> e.data] :
                             e \in {x \in fs : IsUnder(x.path, src)}},
          raised |-> FALSE]

\* shutil.rmtree(base / parts): everything below the directory is removed,
\* then the directory itself by the path given, which fails when that path
\* no longer leads anywhere.
rmtree(fs, base, parts) ==
    LET top     == walk(fs, base, parts).path
        emptied == {e \in fs : ~(IsUnder(e.path, top) /\ e.path # top)}
    IN  IF walk(emptied, base, parts).ok /\ top # <<>>
        THEN [fs |-> {e \in emptied : e.path # top}, raised |-> FALSE]
        ELSE [fs |-> emptied, raised |-> TRUE]

\* install_package(sd_mount, package_name, package_type); package_name is
\* the sequence of the components of the name given.
install_package(fs, sd_mount, package_name, package_type, fault) ==
    LET type_dir    == _resolve_type_dir(package_type)
        source      == PACKAGE_DATA_DIR \o <<<<type_dir>>>> \o package_name
        destination == <<<<type_dir>>>> \o package_name
        refused(text) == [ret |-> <<FALSE, Msg(text, 0, 0, <<>>)>>, fs |-> fs]
    IN
    IF type_dir = "" THEN refused("Unknown package type")
    ELSE IF ~path_is_dir(fs, sd_mount, source) THEN refused("Package source not found")
    ELSE IF path_is_dir(fs, sd_mount, destination)
    THEN refused("Package already installed")
    ELSE LET made == mkdir_along(fs, sd_mount, parent_of(destination))
             r    == copytree(made.fs, walk(fs, sd_mount, source).path,
                              walk(made.fs, sd_mount, parent_of(destination)).path
                                \o <<destination[Len(destination)]>>,
                              sd_mount, destination, fault)
         IN  IF made.raised
             THEN [ret |-> <<FALSE, Msg("Failed to install", 0, 0, <<"OSError">>)>>,
                   fs |-> made.fs]
             ELSE IF r.raised
             THEN [ret |-> <<FALSE, Msg("Failed to install", 0, 0, <<"OSError">>)>>,
                   fs |-> r.fs]
             ELSE [ret |-> <<TRUE, Msg("Successfully installed", 0, 0, <<>>)>>,
                   fs |-> r.fs]

\* uninstall_package(sd_mount, package_name, package_type)
uninstall_package(fs, sd_mount, package_name, package_type) ==
    LET type_dir == _resolve_type_dir(package_type)
        target   == <<<<type_dir>>>> \o package_name
        refused(text) == [ret |-> <<FALSE, Msg(text, 0, 0, <<>>)>>, fs |-> fs]
    IN
    IF type_dir = "" THEN refused("Unknown package type")
    ELSE IF ~path_is_dir(fs, sd_mount, target) THEN refused("Package is not installed")
    ELSE LET r == rmtree(fs, sd_mount, target)
         IN  IF r.raised
             THEN [ret |-> <<FALSE, Msg("Failed to uninstall", 0, 0, <<"OSError">>)>>,
                   fs |-> r.fs]
             ELSE [ret |-> <<TRUE, Msg("Successfully uninstalled", 0, 0, <<>>)>>,
                   fs |-> r.fs]

\* _has_roms: Roms/<name> is a directory holding, directly in it, a regular
\* file whose name does not start with ".".
_has_roms(fs, sd_mount, package_name) ==
    LET rom_dir == sd_mount \o <<<<"Roms">>, package_name>>
    IN  /\ kind_of(fs, rom_dir) = "dir"
        /\ \E e \in fs : /\ parent_of(e.path) = rom_dir /\ e.path # rom_dir
                         /\ e.kind = "file"
                         /\ Head(e.path[Len(e.path)]) # "."

_is_installed(fs, sd_mount, package_name, type_dir) ==
    kind_of(fs, sd_mount \o <<<<type_dir>>, package_name>>) = "dir"

\* The names a staging directory may hold, in sorted order.
NameOrder == <<<<"GBA">>, <<"SFC">>>>

\* scan_packages: one record per directory of each staging type directory,
\* type by type, names sorted.
scan_packages(fs, sd_mount) ==
    LET of_type(type_dir) ==
            LET type_path == sd_mount \o PACKAGE_DATA_DIR \o <<<<type_dir>>>>
                names     == SelectSeq(NameOrder,
                                LAMBDA n : kind_of(fs, Append(type_path, n)) = "dir")
            IN  IF kind_of(fs, type_path) # "dir" THEN <<>>
                ELSE [k \in 1..Len(names) |->
                        [name      |-> names[k],
                         type      |-> _TYPE_MAP(type_dir),
                         available |-> TRUE,
                         installed |-> _is_installed(fs, sd_mount, names[k], type_dir),
                         has_roms  |-> _has_roms(fs, sd_mount, names[k])]]
    IN  of_type(PACKAGE_TYPES[1]) \o of_type(PACKAGE_TYPES[2]) \o of_type(PACKAGE_TYPES[3])

\* Mutant: a package is installed whether or not it has ROMs.
RECURSIVE auto_install_loop_ignores_roms(_, _, _, _, _)
auto_install_loop_ignores_roms(packages, fs, sd_mount, installed_names, failing) ==
    IF packages = <<>> THEN [ret |-> installed_names, fs |-> fs]
    ELSE LET pkg == Head(packages)
         IN  IF pkg.type # "emu" \/ pkg.installed
             THEN auto_install_loop_ignores_roms(Tail(packages), fs, sd_mount,
                                                 installed_names, failing)
             ELSE LET r == install_package(fs, sd_mount, <<pkg.name>>, "emu",
                                           pkg.name \in failing)
                  IN  auto_install_loop_ignores_roms(Tail(packages), r.fs, sd_mount,
                                        IF r.ret[1]
                                        THEN Append(installed_names, pkg.name)
                                        ELSE installed_names,
                                        failing)

\* The loop of auto_install over the scanned packages; failing names the
\* packages whose copy fails.
RECURSIVE auto_install_loop(_, _, _, _, _)
auto_install_loop(packages, fs, sd_mount, installed_names, failing) ==
    IF packages = <<>> THEN [ret |-> installed_names, fs |-> fs]
    ELSE LET pkg == Head(packages)
         IN  IF pkg.type # "emu" \/ pkg.installed \/ ~pkg.has_roms
             THEN auto_install_loop(Tail(packages), fs, sd_mount, installed_names,
                                    failing)
             ELSE LET r == install_package(fs, sd_mount, <<pkg.name>>, "emu",
                                           pkg.name \in failing)
                  IN  auto_install_loop(Tail(packages), r.fs, sd_mount,
                                        IF r.ret[1]
                                        THEN Append(installed_names, pkg.name)
                                        ELSE installed_names,
                                        failing)

auto_install(fs, sd_mount, failing) ==
    auto_install_loop(scan_packages(fs, sd_mount), fs, sd_mount, <<>>, failing)

\* ------------------------------------------------------ managing packages
File(path, data) == [path |-> path, kind |-> "file", data |-> data]

Staging == MountPoint \o PACKAGE_DATA_DIR

\* A package directory with its launch script.
Package(path, data) == {Dir(path), File(Append(path, <<"launch.sh">>), data)}

\* The ROM directories of a card: missing, empty, holding a ROM, holding
\* only a hidden file, or holding a ROM in a subdirectory only.
RomDirs(name) ==
    LET rom_dir == MountPoint \o <<<<"Roms">>, name>>
    IN  {{},
         {Dir(rom_dir)},
         {Dir(rom_dir), File(Append(rom_dir, <<"game">>), 3)},
         {Dir(rom_dir), File(Append(rom_dir, <<".", "nomedia">>), 3)},
         {Dir(rom_dir), Dir(Append(rom_dir, <<"sub">>)),
          File(rom_dir \o <<<<"sub">>, <<"game">>>>, 3)}}

\* The package names passed by a caller: the names of packages, the empty
\* name, and names with a ".." component.
PackageNames ==
    {<<<<"GBA">>>>, <<<<"SFC">>>>, <<>>, <<DotDot>>, <<DotDot, <<"Roms">>, <<"GBA">>>>}

PackageTypesPassed == {"emu", "EMU", "rapp", "rom"}

PackageRecord(op, name, type, fault, fs, r) ==
    [op     |-> op,
     args   |-> [package_name |-> name, package_type |-> type, fault |-> fault],
     pre    |-> [disk |-> fs],
     post   |-> [disk |-> r.fs],
     ret    |-> r.ret,
     events |-> <<>>,
     raised |-> ""]

\* A card with the GBA emulator staged; SFC may be staged as an emulator
\* and as a RetroArch core; GBA may be installed already.
InitPackages ==
    /\ clock = 0
    /\ sd = Unmounted
    /\ backup_dir = NoBackupDir
    /\ log = <<>>
    /\ pc = "ready"
    /\ stock_mount = NoMount
    /\ onion_mount = NoMount
    /\ \E staged_sfc, staged_rapp, emu_dir \in BOOLEAN :
       \E installed \in SUBSET {<<"GBA">>} :
       \E roms_gba \in RomDirs(<<"GBA">>), roms_sfc \in RomDirs(<<"SFC">>) :
        /\ roms_sfc = {} \/ Cardinality(roms_sfc) = 2
        /\ installed # {} => emu_dir
        /\ disk = {Dir(SubSeq(Staging, 1, n)) : n \in 0..Len(Staging)}
                  \cup {Dir(Append(Staging, <<"Emu">>))}
                  \cup Package(Staging \o <<<<"Emu">>, <<"GBA">>>>, 1)
                  \cup (IF staged_sfc
                        THEN Package(Staging \o <<<<"Emu">>, <<"SFC">>>>, 1) ELSE {})
                  \cup (IF staged_rapp
                        THEN {Dir(Append(Staging, <<"RApp">>))}
                             \cup Package(Staging \o <<<<"RApp">>, <<"SFC">>>>, 1)
                        ELSE {})
                  \cup (IF emu_dir THEN {Dir(Append(MountPoint, <<"Emu">>))} ELSE {})
                  \cup UNION {Package(MountPoint \o <<<<"Emu">>, n>>, 2) : n \in installed}
                  \cup (IF roms_gba \cup roms_sfc = {} THEN {}
                        ELSE {Dir(Append(MountPoint, <<"Roms">>))})
                  \cup roms_gba \cup roms_sfc

InstallPackage ==
    /\ pc = "ready"
    /\ \E name \in PackageNames, type \in PackageTypesPassed, fault \in BOOLEAN :
        LET r == install_package(disk, MountPoint, name, type, fault)
        IN  /\ fault => r.fs # disk
            /\ disk' = r.fs
            /\ log' = Append(log, PackageRecord("install_package", name, type, fault,
                                                disk, r))
    /\ pc' = "called"
    /\ UNCHANGED <<clock, sd, backup_dir, stock_mount, onion_mount>>

UninstallPackage ==
    /\ pc = "ready"
    /\ \E name \in PackageNames, type \in PackageTypesPassed :
        LET r == uninstall_package(disk, MountPoint, name, type)
        IN  /\ disk' = r.fs
            /\ log' = Append(log, PackageRecord("uninstall_package", name, type, FALSE,
                                                disk, r))
    /\ pc' = "called"
    /\ UNCHANGED <<clock, sd, backup_dir, stock_mount, onion_mount>>

AutoInstall ==
    /\ pc \in {"ready", "called"}
    /\ pc = "called" => Last.op = "auto_install"
    /\ \E failing \in SUBSET {<<"GBA">>} :
        LET r == auto_install(disk, MountPoint, failing)
        IN  /\ pc = "called" => failing = {}
            /\ disk' = r.fs
            /\ log' = Append(log, PackageRecord("auto_install", <<>>, "emu", failing,
                                                disk, r))
    /\ pc' = IF pc = "ready" THEN "called" ELSE "again"
    /\ UNCHANGED <<clock, sd, backup_dir, stock_mount, onion_mount>>

\* The same package is installed a second time, or uninstalled, right after
\* an install_package call.
InstallAgain ==
    /\ pc = "called"
    /\ Last.op = "install_package"
    /\ LET r == install_package(disk, MountPoint, Last.args.package_name,
                                Last.args.package_type, FALSE)
       IN  /\ disk' = r.fs
           /\ log' = Append(log, PackageRecord("install_package", Last.args.package_name,
                                               Last.args.package_type, FALSE, disk, r))
    /\ pc' = "again"
    /\ UNCHANGED <<clock, sd, backup_dir, stock_mount, onion_mount>>

UninstallAfter ==
    /\ pc = "called"
    /\ Last.op = "install_package"
    /\ LET r == uninstall_package(disk, MountPoint, Last.args.package_name,
                                  Last.args.package_type)
       IN  /\ disk' = r.fs
           /\ log' = Append(log, PackageRecord("uninstall_package", Last.args.package_name,
                                               Last.args.package_type, FALSE, disk, r))
    /\ pc' = "again"
    /\ UNCHANGED <<clock, sd, backup_dir, stock_mount, onion_mount>>

NextPackages ==
    InstallPackage \/ UninstallPackage \/ AutoInstall \/ InstallAgain \/ UninstallAfter

SpecPackages == InitPackages /\ [][NextPackages]_vars

\* ---------------------------------------------------- sd_manager.eject_drive
\* A device path is the sequence of its parts, "/dev/" first when it is
\* absolute.
_ensure_block_device(device) ==
    IF Head(device) = "/dev/" THEN device ELSE <<"/dev/">> \o device

\* A command line: the tool with its leading arguments, and the device.
Cmd(argv, target) == [argv |-> argv, target |-> target]

\* _privileged_run: pkexec is put in front unless the process is root.
_privileged_run(cmd, is_root) ==
    IF is_root THEN cmd ELSE Cmd(<<"pkexec">> \o cmd.argv, cmd.target)

\* What subprocess.run can do with a command: exit 0, exit non-zero, or
\* raise TimeoutExpired after the timeout.
Outcomes == {"ok", "fail", "timeout"}

\* The environment of a call: the partitions of the drive in lsblk's order
\* and which are mounted, what lsblk does (badjson: exit 0 with output that
\* is no JSON), what each command would do, whether eject is installed and
\* whether the process is root.
Tried(cmd, rc) == [cmd |-> cmd, rc |-> rc]

\* get_drive_partitions: the partitions lsblk lists, each with its mount
\* point (here: whether it has one); none when lsblk fails or prints no JSON.
get_drive_partitions(device, env) ==
    LET cmd == Cmd(<<"lsblk", "-J", "-o", "NAME,SIZE,TYPE,MOUNTPOINT,FSTYPE,LABEL">>,
                   _ensure_block_device(device))
    IN  IF env.lsblk = "timeout"
        THEN [partitions |-> <<>>, cmds |-> <<Tried(cmd, "timeout")>>,
              raised |-> "TimeoutExpired"]
        ELSE IF env.lsblk \in {"fail", "badjson"}
        THEN [partitions |-> <<>>,
              cmds |-> <<Tried(cmd, IF env.lsblk = "fail" THEN "fail" ELSE "ok")>>,
              raised |-> ""]
        ELSE [partitions |-> [k \in 1..Len(env.children) |->
                                [device     |-> <<"/dev/", env.children[k]>>,
                                 mountpoint |-> env.children[k] \in env.mounted]],
              cmds |-> <<Tried(cmd, "ok")>>,
              raised |-> ""]

\* The loop of eject_drive over the partitions: udisksctl unmount, then
\* umount when that fails; the call ends at the first partition neither
\* unmounts, and at the first command that times out.
RECURSIVE unmount_loop(_, _, _, _)
unmount_loop(partitions, mounted, cmds, env) ==
    IF partitions = <<>>
    THEN [mounted |-> mounted, cmds |-> cmds, raised |-> "", failed |-> <<>>]
    ELSE LET part   == Head(partitions)
             udisks == Cmd(<<"udisksctl", "unmount", "-b">>, part.device)
             umount == Cmd(<<"umount">>, part.device)
             first  == Append(cmds, Tried(udisks, env.outcome[udisks]))
             second == Append(first, Tried(_privileged_run(umount, env.is_root),
                                           env.outcome[umount]))
         IN  IF ~part.mountpoint
             THEN unmount_loop(Tail(partitions), mounted, cmds, env)
             ELSE IF env.outcome[udisks] = "timeout"
             THEN [mounted |-> mounted, cmds |-> first,
                   raised |-> "TimeoutExpired", failed |-> <<>>]
             ELSE IF env.outcome[udisks] = "ok"
             THEN unmount_loop(Tail(partitions), mounted \ {part.device[2]}, first, env)
             ELSE IF env.outcome[umount] = "timeout"
             THEN [mounted |-> mounted, cmds |-> second,
                   raised |-> "TimeoutExpired", failed |-> <<>>]
             ELSE IF env.outcome[umount] = "ok"
             THEN unmount_loop(Tail(partitions), mounted \ {part.device[2]}, second, env)
             ELSE [mounted |-> mounted, cmds |-> second, raised |-> "",
                   failed |-> part.device]

\* eject_drive(device): the commands it issues with their results, what
\* stays mounted, and what it returns or raises.
eject_drive(device, env) ==
    LET dev      == _ensure_block_device(device)
        listed   == get_drive_partitions(dev, env)
        loop     == unmount_loop(listed.partitions, env.mounted, listed.cmds, env)
        poweroff == Cmd(<<"udisksctl", "power-off", "-b">>, dev)
        eject    == Cmd(<<"eject">>, dev)
        third    == Append(loop.cmds, Tried(poweroff, env.outcome[poweroff]))
        fourth   == Append(third, Tried(_privileged_run(eject, env.is_root),
                                        env.outcome[eject]))
        out(ok, text, cmds, mounted, raised) ==
            [ret |-> <<ok, Msg(text, 0, 0, <<>>)>>, cmds |-> cmds,
             mounted |-> mounted, raised |-> raised]
    IN
    IF listed.raised # ""
    THEN out(FALSE, "", listed.cmds, env.mounted, listed.raised)
    ELSE IF loop.raised # ""
    THEN out(FALSE, "", loop.cmds, loop.mounted, loop.raised)
    ELSE IF loop.failed # <<>>
    THEN out(FALSE, "Failed to unmount", loop.cmds, loop.mounted, "")
    ELSE IF env.outcome[poweroff] = "timeout"
    THEN out(FALSE, "", third, loop.mounted, "TimeoutExpired")
    ELSE IF env.outcome[poweroff] = "ok"
    THEN out(TRUE, "has been safely ejected", third, loop.mounted, "")
    ELSE IF ~env.has_eject
    THEN out(FALSE, "Failed to power-off", third, loop.mounted, "")
    ELSE IF env.outcome[eject] = "timeout"
    THEN out(FALSE, "", fourth, loop.mounted, "TimeoutExpired")
    ELSE IF env.outcome[eject] = "ok"
    THEN out(TRUE, "has been ejected (via eject)", fourth, loop.mounted, "")
    ELSE out(FALSE, "Failed to eject", fourth, loop.mounted, "")

\* The drive sdb with two partitions, passed by name or by path.
Children == <<"sdb1", "sdb2">>

DevicesPassed == {<<"sdb">>, <<"/dev/", "sdb">>}

Commands ==
    {Cmd(<<"udisksctl", "unmount", "-b">>, <<"/dev/", Children[k]>>) : k \in 1..2}
    \cup {Cmd(<<"umount">>, <<"/dev/", Children[k]>>) : k \in 1..2}
    \cup {Cmd(<<"udisksctl", "power-off", "-b">>, <<"/dev/", "sdb">>),
          Cmd(<<"eject">>, <<"/dev/", "sdb">>)}

EjectRecord(device, env, r) ==
    [op     |-> "eject_drive",
     args   |-> [device |-> device, env |-> env],
     pre    |-> [mounted |-> env.mounted],
     post   |-> [mounted |-> r.mounted],
     cmds   |-> r.cmds,
     ret    |-> r.ret,
     events |-> <<>>,
     raised |-> r.raised]

InitEject ==
    /\ clock = 0
    /\ sd = Unmounted
    /\ backup_dir = NoBackupDir
    /\ log = <<>>
    /\ pc = "ready"
    /\ stock_mount = NoMount
    /\ onion_mount = NoMount
    /\ disk = {}

\* eject_drive is called in some environment.
EjectDrive ==
    /\ pc = "ready"
    /\ \E device \in DevicesPassed, mounted \in SUBSET {"sdb1", "sdb2"},
          lsblk \in Outcomes \cup {"badjson"}, outcome \in [Commands -> Outcomes],
          has_eject, is_root \in BOOLEAN :
        LET env == [children |-> Children, mounted |-> mounted, lsblk |-> lsblk,
                    outcome |-> outcome, has_eject |-> has_eject,
                    is_root |-> is_root]
        IN  log' = Append(log, EjectRecord(device, env, eject_drive(device, env)))
    /\ pc' = "called"
    /\ UNCHANGED <<clock, sd, backup_dir, stock_mount, onion_mount, disk>>

\* After a call that did not succeed, eject_drive is called again for what
\* is still mounted, this time with every command working.
EjectAgain ==
    /\ pc = "called"
    /\ Last.op = "eject_drive"
    /\ ~Last.ret[1]
    /\ LET env == [Last.args.env EXCEPT !.mounted = Last.post.mounted,
                                        !.lsblk = "ok",
                                        !.outcome = [c \in Commands |-> "ok"]]
       IN  log' = Append(log, EjectRecord(Last.args.device, env,
                                          eject_drive(Last.args.device, env)))
    /\ pc' = "again"
    /\ UNCHANGED <<clock, sd, backup_dir, stock_mount, onion_mount, disk>>

NextEject == EjectDrive \/ EjectAgain

SpecEject == InitEject /\ [][NextEject]_vars

\* ---------------------------------------- onion_installer.check_for_app_updates
\* A version string is the sequence of its characters.
DigitValue == [c \in {"0", "1", "2", "3", "4", "5", "6", "7", "8", "9"} |->
                 CASE c = "0" -> 0 [] c = "1" -> 1 [] c = "2" -> 2 [] c = "3" -> 3
                   [] c = "4" -> 4 [] c = "5" -> 5 [] c = "6" -> 6 [] c = "7" -> 7
                   [] c = "8" -> 8 [] c = "9" -> 9]

IsDigit(c) == c \in DOMAIN DigitValue

\* The end of the match of \d+(?:\.\d+)* that starts at position i of tag:
\* the digits from i on, and each following "." that has a digit after it
\* with the digits after that.
RECURSIVE match_end(_, _)
match_end(tag, i) ==
    IF i < Len(tag) /\ IsDigit(tag[i + 1]) THEN match_end(tag, i + 1)
    ELSE IF i + 1 < Len(tag) /\ tag[i + 1] = "." /\ IsDigit(tag[i + 2])
    THEN match_end(tag, i + 2)
    ELSE i

\* int(part) for each part of text.split("."), text a match of the pattern.
RECURSIVE int_parts(_, _, _)
int_parts(text, parts, value) ==
    IF text = <<>> THEN Append(parts, value)
    ELSE IF Head(text) = "." THEN int_parts(Tail(text), Append(parts, value), 0)
    ELSE int_parts(Tail(text), parts, 10 * value + DigitValue[Head(text)])

\* _parse_version: the numbers of the leftmost match of the pattern, (0,)
\* when the tag has no digit.
_parse_version(tag) ==
    LET starts == {i \in 1..Len(tag) : IsDigit(tag[i])}
        first  == CHOOSE i \in starts : \A j \in starts : i <= j
    IN  IF starts = {} THEN <<0>>
        ELSE int_parts(SubSeq(tag, first, match_end(tag, first)), <<>>, 0)

\* a > b for tuples of integers: at the first position where they differ a
\* has the larger number, or b is a proper prefix of a.
tuple_gt(a, b) ==
    \E k \in 1..Len(a) :
        /\ \A j \in 1..(k - 1) : j <= Len(b) /\ a[j] = b[j]
        /\ (k > Len(b) \/ a[k] > b[k])

\* The loop over the releases: the first that is no draft.
RECURSIVE first_non_draft(_)
first_non_draft(releases) ==
    IF releases = <<>> THEN <<>>
    ELSE IF Head(releases).draft THEN first_non_draft(Tail(releases))
    ELSE <<Head(releases)>>

\* check_for_app_updates(current_version); response is what _github_get
\* gives: the list of releases, or an exception.
check_for_app_updates(current_version, response) ==
    LET latest == first_non_draft(response.releases)
    IN  IF response.raised \/ response.releases = <<>> \/ latest = <<>>
        THEN <<FALSE, <<>>, "">>
        ELSE <<tuple_gt(_parse_version(latest[1].tag_name),
                        _parse_version(current_version)),
               latest[1].tag_name,
               IF latest[1].zip_asset THEN "browser_download_url" ELSE "html_url">>

MaxReleases == 2

VersionStrings ==
    {<<"1", ".", "0">>, <<"v", "1", ".", "0", ".", "0">>, <<"1">>,
     <<"v", "1", ".", "0", ".", "1">>, <<"1", ".", "9">>, <<"1", ".", "1", "0">>,
     <<"v", "0", "1", ".", "0">>, <<"b", "e", "t", "a">>}

Releases == [draft : BOOLEAN, tag_name : VersionStrings, zip_asset : BOOLEAN]

UpdateRecord(current_version, response, ret) ==
    [op     |-> "check_for_app_updates",
     args   |-> [current_version |-> current_version, response |-> response],
     ret    |-> ret,
     events |-> <<>>,
     raised |-> ""]

InitUpdates == InitEject

\* The check is made with some list of releases on the server.
CheckForAppUpdates ==
    /\ Len(log) < 1
    /\ \E current_version \in VersionStrings, n \in 0..MaxReleases :
        \E releases \in [1..n -> Releases] :
            LET response == [raised |-> FALSE, releases |-> releases]
            IN  log' = Append(log, UpdateRecord(current_version, response,
                          check_for_app_updates(current_version, response)))
    /\ pc' = "called"
    /\ UNCHANGED <<clock, sd, backup_dir, stock_mount, onion_mount, disk>>

\* The check is made while the server cannot be reached.
CheckOffline ==
    /\ Len(log) < 1
    /\ \E current_version \in VersionStrings :
        LET response == [raised |-> TRUE, releases |-> <<>>]
        IN  log' = Append(log, UpdateRecord(current_version, response,
                      check_for_app_updates(current_version, response)))
    /\ pc' = "called"
    /\ UNCHANGED <<clock, sd, backup_dir, stock_mount, onion_mount, disk>>

NextUpdates == CheckForAppUpdates \/ CheckOffline

SpecUpdates == InitUpdates /\ [][NextUpdates]_vars

\* ------------------------------------------------------------ config_manager
CONFIG_DIR == <<<<".tmp_update">>, <<"config">>>>

\* Path.exists() of base / parts.
path_exists(fs, base, parts) == walk(fs, base, parts).ok

\* get_current_settings(sd_mount, config): config is given by its
\* filenames, in the order of _get_all_filenames.
get_current_settings(fs, sd_mount, filenames) ==
    [filename \in {filenames[k] : k \in 1..Len(filenames)} |->
        path_exists(fs, sd_mount, Append(CONFIG_DIR, filename))]

\* Mutant: disabling leaves the flag file where it is.
toggle_setting_never_removes(fs, sd_mount, filename, enabled) ==
    LET config_dir == sd_mount \o CONFIG_DIR
        file_path  == Append(config_dir, filename)
        made       == mkdir_along(fs, sd_mount, CONFIG_DIR)
    IN  IF enabled
        THEN IF made.raised THEN [fs |-> made.fs, raised |-> "OSError"]
             ELSE [fs |-> IF kind_of(made.fs, file_path) = "none"
                          THEN made.fs \cup {[path |-> file_path, kind |-> "file",
                                              data |-> 0]}
                          ELSE made.fs,
                   raised |-> ""]
        ELSE [fs |-> fs, raised |-> ""]

\* toggle_setting(sd_mount, filename, enabled): enabling makes the config
\* directory and touches the file; disabling unlinks the file when the path
\* exists, which raises for a directory.
toggle_setting(fs, sd_mount, filename, enabled) ==
    LET config_dir == sd_mount \o CONFIG_DIR
        file_path  == Append(config_dir, filename)
        made       == mkdir_along(fs, sd_mount, CONFIG_DIR)
    IN  IF enabled
        THEN IF made.raised THEN [fs |-> made.fs, raised |-> "OSError"]
             ELSE [fs |-> IF kind_of(made.fs, file_path) = "none"
                          THEN made.fs \cup {[path |-> file_path, kind |-> "file",
                                              data |-> 0]}
                          ELSE made.fs,
                   raised |-> ""]
        ELSE IF ~path_exists(fs, sd_mount, Append(CONFIG_DIR, filename))
        THEN [fs |-> fs, raised |-> ""]
        ELSE IF kind_of(fs, file_path) = "dir"
        THEN [fs |-> fs, raised |-> "OSError"]
        ELSE [fs |-> {e \in fs : e.path # file_path}, raised |-> ""]

\* apply_settings(sd_mount, settings_dict): the dict is the sequence of its
\* items in iteration order; the first toggle that raises ends the call.
RECURSIVE apply_settings(_, _, _)
apply_settings(fs, sd_mount, settings_dict) ==
    IF settings_dict = <<>> THEN [fs |-> fs, raised |-> ""]
    ELSE LET r == toggle_setting(fs, sd_mount, Head(settings_dict).filename,
                                 Head(settings_dict).enabled)
         IN  IF r.raised # "" THEN r
             ELSE apply_settings(r.fs, sd_mount, Tail(settings_dict))

\* The configured filenames, and a file in the config directory that is no
\* configured flag.
ConfigFilenames == <<<<".noAutoStart">>, <<".noTimeRestore">>>>

OtherFlag == <<".other">>

\* The dicts over the configured filenames, as sequences of items with
\* distinct keys.
SettingsDicts ==
    {s \in UNION {[1..n -> [filename : {ConfigFilenames[k] : k \in 1..2},
                            enabled : BOOLEAN]] : n \in 0..2} :
        \A i, j \in 1..Len(s) : s[i].filename = s[j].filename => i = j}

ConfigRecord(op, args, fs, r, ret) ==
    [op     |-> op,
     args   |-> args,
     pre    |-> [disk |-> fs],
     post   |-> [disk |-> r.fs],
     ret    |-> ret,
     events |-> <<>>,
     raised |-> r.raised]

\* A mounted card on which .tmp_update is missing, a file or a directory;
\* config is missing, a file or a directory; each flag name is free, a
\* file or a directory.
InitConfig ==
    /\ clock = 0
    /\ sd = Unmounted
    /\ backup_dir = NoBackupDir
    /\ log = <<>>
    /\ pc = "ready"
    /\ stock_mount = NoMount
    /\ onion_mount = NoMount
    /\ \E tmp, config \in {"none", "file", "dir"},
          flags \in [{ConfigFilenames[1], ConfigFilenames[2], OtherFlag}
                       -> {"none", "file", "dir"}] :
        /\ tmp # "dir" => config = "none"
        /\ config # "dir" => \A f \in DOMAIN flags : flags[f] = "none"
        /\ flags[OtherFlag] # "dir"
        /\ disk = {Dir(<<>>), Dir(<<<<"m">>>>), Dir(MountPoint)}
                  \cup {Entry(Append(MountPoint, CONFIG_DIR[1]), tmp) : x \in {tmp} \ {"none"}}
                  \cup {Entry(MountPoint \o CONFIG_DIR, config) : x \in {config} \ {"none"}}
                  \cup {Entry(Append(MountPoint \o CONFIG_DIR, f), flags[f]) :
                          f \in {g \in DOMAIN flags : flags[g] # "none"}}

ApplySettings ==
    /\ pc = "ready"
    /\ \E settings_dict \in SettingsDicts :
        LET r == apply_settings(disk, MountPoint, settings_dict)
        IN  /\ disk' = r.fs
            /\ log' = Append(log, ConfigRecord("apply_settings",
                                 [settings_dict |-> settings_dict], disk, r, <<>>))
    /\ pc' = "called"
    /\ UNCHANGED <<clock, sd, backup_dir, stock_mount, onion_mount>>

\* The same settings are applied a second time.
ApplyAgain ==
    /\ pc = "called"
    /\ Last.op = "apply_settings"
    /\ LET r == apply_settings(disk, MountPoint, Last.args.settings_dict)
       IN  /\ disk' = r.fs
           /\ log' = Append(log, ConfigRecord("apply_settings", Last.args, disk, r, <<>>))
    /\ pc' = "again"
    /\ UNCHANGED <<clock, sd, backup_dir, stock_mount, onion_mount>>

ToggleSetting ==
    /\ pc = "ready"
    /\ \E k \in 1..2, enabled \in BOOLEAN :
        LET r == toggle_setting(disk, MountPoint, ConfigFilenames[k], enabled)
        IN  /\ disk' = r.fs
            /\ log' = Append(log, ConfigRecord("toggle_setting",
                                 [filename |-> ConfigFilenames[k], enabled |-> enabled],
                                 disk, r, <<>>))
    /\ pc' = "called"
    /\ UNCHANGED <<clock, sd, backup_dir, stock_mount, onion_mount>>

\* The settings are read, at the start or after a call.
GetCurrentSettings ==
    /\ pc \in {"ready", "called", "again"}
    /\ log' = Append(log, ConfigRecord("get_current_settings", <<>>, disk,
                         [fs |-> disk, raised |-> ""],
                         get_current_settings(disk, MountPoint, ConfigFilenames)))
    /\ pc' = "read"
    /\ UNCHANGED <<clock, sd, backup_dir, stock_mount, onion_mount, disk>>

NextConfig == ApplySettings \/ ApplyAgain \/ ToggleSetting \/ GetCurrentSettings

SpecConfig == InitConfig /\ [][NextConfig]_vars

\* ============================================================== claims
CallsOf(op) == {i \in 1..Len(log) : log[i].op = op}

\* The categories of a list whose directory exists in a tree.
Present(categories, tree) ==
    SelectSeq(categories, LAMBDA k : tree[BACKUP_CATEGORIES[k].path].exists)

KnownKeys(categories) == \A i \in 1..Len(categories) : categories[i] \in CategoryKeys

\* C1: create_backup fails fast.  Whenever the mount is no directory, a
\* requested key is unknown or the list is empty, it returns success=False
\* with an empty backup path and neither the backup root nor the card has
\* changed.
C1_FailsFast ==
    \A i \in CallsOf("create_backup") :
        LET r == log[i] IN
        (\/ ~r.pre.sd.mounted
         \/ ~KnownKeys(r.args.categories)
         \/ r.args.categories = <<>>)
        => /\ r.ret[1] = FALSE
           /\ r.ret[2] = NoPath
           /\ r.post.backup_dir = r.pre.backup_dir
           /\ r.post.sd = r.pre.sd
           /\ (i = Len(log) => backup_dir = r.pre.backup_dir /\ sd = r.pre.sd)

\* C1 witness: a call with an unknown key beside a known one, on a mounted
\* card with files, against a backup root that already holds a snapshot.
C1_Witness ==
    /\ pc = "called"
    /\ Last.op = "create_backup"
    /\ Last.args.categories = <<"roms", "cheats">>
    /\ Last.pre.sd.mounted
    /\ Last.pre.sd.tree["Roms"].files[1] # NoFile
    /\ Last.pre.backup_dir.exists
    /\ ~Last.ret[1]

\* The paths of the categories a list names.
PathsOf(categories) ==
    {BACKUP_CATEGORIES[categories[i]].path : i \in 1..Len(categories)}

\* A successful create_backup (record i) directly followed by a successful
\* restore_backup of the snapshot it returned, with the same category list,
\* onto an empty mounted target.
IsRoundTrip(i) ==
    /\ i \in CallsOf("create_backup")
    /\ i + 1 \in CallsOf("restore_backup")
    /\ log[i].ret[1]
    /\ log[i + 1].ret[1]
    /\ log[i + 1].args.backup_path = log[i].ret[2]
    /\ log[i + 1].args.categories = log[i].args.categories
    /\ log[i + 1].pre.sd = Blank
    /\ log[i + 1].pre.backup_dir = log[i].post.backup_dir

\* The target holds, for every category of C that exists in T, exactly T's
\* files of that category (same relative paths, same contents), and
\* nothing for the categories outside C.
Reproduces(i) ==
    LET T      == log[i].pre.sd.tree
        C      == log[i].args.categories
        target == log[i + 1].post.sd.tree
    IN  /\ \A c \in PathsOf(C) : T[c].exists => target[c] = T[c]
        /\ \A c \in CategoryPaths \ PathsOf(C) : target[c] = NoDir

\* The snapshot directory of create_backup record i did not exist before
\* the call.
FreshSnapshot(i) == ~HasEntry(log[i].pre.backup_dir, log[i].ret[2])

\* C2 as claimed: every backup / restore round trip reproduces the source.
C2_RoundTrip_Original ==
    \A i \in 1..Len(log) : IsRoundTrip(i) => Reproduces(i)

\* C2 amended: a round trip reproduces the source when create_backup made
\* the snapshot directory itself (no directory of that name existed).
C2_RoundTrip_Fresh ==
    \A i \in 1..Len(log) : IsRoundTrip(i) /\ FreshSnapshot(i) => Reproduces(i)

\* C2 witness: a round trip through a fresh snapshot of a card whose Roms
\* directory is full and whose Saves directory is left out of the list,
\* beside an older snapshot in the backup root.
C2_Witness ==
    /\ pc = "restored"
    /\ IsRoundTrip(Len(log) - 1)
    /\ FreshSnapshot(Len(log) - 1)
    /\ log[Len(log) - 1].pre.backup_dir.exists
    /\ log[Len(log) - 1].args.categories = <<"roms">>
    /\ log[Len(log) - 1].pre.sd.tree["Roms"] = Files(MaxPath, 1)
    /\ log[Len(log) - 1].pre.sd.tree["Saves"].exists
    /\ sd.tree["Roms"] = Files(MaxPath, 1)
    /\ sd.tree["Saves"] = NoDir

\* The number of regular files under the source paths of a set of
\* categories, each category counted once.
RECURSIVE FilesUnder(_, _)
FilesUnder(keys, tree) ==
    IF keys = {} THEN 0
    ELSE LET k == CHOOSE x \in keys : TRUE
         IN  Cardinality(rglob_files(tree[BACKUP_CATEGORIES[k].path]))
             + FilesUnder(keys \ {k}, tree)

\* The number of regular files under the source paths of the entries of a
\* list, each entry counted.
RECURSIVE FilesOfEntries(_, _)
FilesOfEntries(categories, tree) ==
    IF categories = <<>> THEN 0
    ELSE Cardinality(rglob_files(tree[BACKUP_CATEGORIES[Head(categories)].path]))
         + FilesOfEntries(Tail(categories), tree)

PresentKeys(categories, tree) ==
    {k \in CategoryKeys : /\ \E i \in 1..Len(categories) : categories[i] = k
                          /\ tree[BACKUP_CATEGORIES[k].path].exists}

\* The sidecar create_backup record r left in its snapshot.
SidecarOf(r) == r.post.backup_dir.entries[r.ret[2]].info

\* Record r is a successful create_backup whose message and sidecar (when
\* the sidecar was written) both report n files.
ReportsTotal(r, n) ==
    /\ r.ret[3].files = n
    /\ (r.args.fault.kind # "info" =>
           SidecarOf(r).kind = "object" /\ SidecarOf(r).obj.total_files = n)

\* C3 as claimed: after a successful create_backup, for any list of
\* recognised keys, total_files is the sum over the categories present on
\* the card of the files under the category's source path.
C3_TotalFiles_Original ==
    \A i \in CallsOf("create_backup") :
        log[i].ret[1] =>
            ReportsTotal(log[i], FilesUnder(PresentKeys(log[i].args.categories,
                                                        log[i].pre.sd.tree),
                                            log[i].pre.sd.tree))

\* C3 amended: total_files is the sum over the entries of the list passed
\* (a key passed twice is copied and counted twice) whose source directory
\* existed, of the files under the entry's source path.
C3_TotalFiles ==
    \A i \in CallsOf("create_backup") :
        log[i].ret[1] =>
            ReportsTotal(log[i], FilesOfEntries(Present(log[i].args.categories,
                                                        log[i].pre.sd.tree),
                                                log[i].pre.sd.tree))

\* C3 witness: a successful backup of two present categories and an absent
\* one, of a card with files in both, whose sidecar records their sum.
C3_Witness ==
    /\ pc = "called"
    /\ Last.op = "create_backup"
    /\ Last.ret[1]
    /\ Last.args.categories = <<"roms", "saves">>
    /\ Last.pre.sd.tree["Roms"] = Files(MaxPath, 1)
    /\ Last.pre.sd.tree["Saves"] = Files(1, 1)
    /\ SidecarOf(Last).kind = "object"
    /\ SidecarOf(Last).obj.total_files = MaxPath + 1

\* The category trees of the snapshot directory `name` before call r.
TreeBefore(r, name) ==
    IF HasEntry(r.pre.backup_dir, name)
    THEN r.pre.backup_dir.entries[name].tree
    ELSE EmptyTree

\* The keys of call r whose source directory is not on the card.
AbsentKeys(r) ==
    {k \in CategoryKeys : /\ \E j \in 1..Len(r.args.categories) : r.args.categories[j] = k
                          /\ ~r.pre.sd.tree[BACKUP_CATEGORIES[k].path].exists}

Without(categories, k) == SelectSeq(categories, LAMBDA x : x # k)

\* C4: asking create_backup for a recognised category that is not on the
\* card is no error.  When no filesystem step fails and no exception
\* escapes, the call succeeds; the
\* key is not in the categories list of the sidecar written; the snapshot
\* gets no directory for it; and the reported total is the total of the
\* other entries of the list.
C4_AbsentCategory ==
    \A i \in CallsOf("create_backup") :
        LET r == log[i]
        IN  \A k \in AbsentKeys(r) :
                /\ (ValidCall(r.pre.sd, r.args.categories)
                    /\ r.args.fault.kind \in {"none", "info"}
                    /\ r.raised = "") =>
                       /\ r.ret[1]
                       /\ r.ret[3].files =
                            FilesOfEntries(Without(r.args.categories, k), r.pre.sd.tree)
                /\ (ValidCall(r.pre.sd, r.args.categories)
                    /\ r.args.fault.kind = "none"
                    /\ r.raised = "") =>
                       /\ SidecarOf(r).kind = "object"
                       /\ \A j \in 1..Len(SidecarOf(r).obj.categories) :
                              SidecarOf(r).obj.categories[j] # k
                       /\ SidecarOf(r).obj.total_files =
                            FilesOfEntries(Without(r.args.categories, k), r.pre.sd.tree)
                /\ r.ret[2] # NoPath =>
                       r.post.backup_dir.entries[r.ret[2]].tree[BACKUP_CATEGORIES[k].path]
                         = TreeBefore(r, r.ret[2])[BACKUP_CATEGORIES[k].path]

\* C4 witness: a backup of Saves and Roms from a card without a Saves
\* directory into a new snapshot succeeds and records Roms only.
C4_Witness ==
    /\ pc = "called"
    /\ Last.op = "create_backup"
    /\ Last.args.categories = <<"saves", "roms">>
    /\ Last.args.fault = NoFault
    /\ Last.pre.sd.tree["Saves"] = NoDir
    /\ Last.pre.sd.tree["Roms"] = Files(MaxPath, 1)
    /\ Last.ret[1]
    /\ ~HasEntry(Last.pre.backup_dir, Last.ret[2])
    /\ SidecarOf(Last).obj.categories = <<"roms">>
    /\ backup_dir.entries[Last.ret[2]].tree["Saves"] = NoDir

\* The copy2 calls create_backup makes for a list, in order: for each entry
\* whose source directory exists, its files in sorted order.
RECURSIVE CopyPlan(_, _)
CopyPlan(categories, tree) ==
    IF categories = <<>> THEN <<>>
    ELSE LET path  == BACKUP_CATEGORIES[Head(categories)].path
             files == sorted(rglob_files(tree[path]))
         IN  [j \in 1..Len(files) |-> <<path, files[j]>>]
             \o CopyPlan(Tail(categories), tree)

\* The entry of the list during whose copy the n-th copy2 call is made.
FailingEntry(categories, tree, n) ==
    CHOOSE e \in 1..Len(categories) :
        /\ FilesOfEntries(SubSeq(categories, 1, e), tree) >= n
        /\ FilesOfEntries(SubSeq(categories, 1, e - 1), tree) < n

\* C5: when the n-th file copy of create_backup fails, the call returns
\* (False, path of the snapshot directory, message carrying the error); the
\* directory is on disk; its sidecar is what it was before the call (none
\* in a new directory); the files copied before the failure are in it, the
\* failing file is untouched or truncated, and every file and category
\* after it is as before the call.
C5_CopyFailure ==
    \A i \in CallsOf("create_backup") :
        LET r    == log[i]
            plan == CopyPlan(r.args.categories, r.pre.sd.tree)
            n    == r.args.fault.at
            name == r.ret[2]
        IN  (r.args.fault.kind = "copy" /\ ValidCall(r.pre.sd, r.args.categories)) =>
            /\ ~r.ret[1]
            /\ name = dir_name(r.pre.clock, _detect_sd_state(r.pre.sd),
                               _detect_onion_version(r.pre.sd))
            /\ r.ret[3].detail # <<>>
            /\ HasEntry(r.post.backup_dir, name)
            /\ r.post.backup_dir.entries[name].isdir
            /\ r.post.backup_dir.entries[name].info =
                 (IF HasEntry(r.pre.backup_dir, name)
                  THEN r.pre.backup_dir.entries[name].info ELSE NoInfo)
            /\ \A c \in CategoryPaths :
                 LET after  == r.post.backup_dir.entries[name].tree[c]
                     before == TreeBefore(r, name)[c]
                 IN  /\ (\A e \in 1..FailingEntry(r.args.categories, r.pre.sd.tree, n) :
                            BACKUP_CATEGORIES[r.args.categories[e]].path # c)
                        => after = before
                     /\ \A p \in Paths :
                          LET reached == IF \E j \in 1..(n - 1) : plan[j] = <<c, p>>
                                         THEN r.pre.sd.tree[c].files[p]
                                         ELSE before.files[p]
                          IN  IF plan[n] = <<c, p>>
                              THEN after.files[p] \in {reached, PartialFile}
                              ELSE after.files[p] = reached

\* C5 witness: the first Saves file fails after all Roms files were copied
\* into a new snapshot; the call reports failure with the directory's path
\* and the directory holds the Roms files, no Saves file and no sidecar.
C5_Witness ==
    /\ pc = "called"
    /\ Last.op = "create_backup"
    /\ Last.args.categories = <<"roms", "saves">>
    /\ Last.args.fault = [kind |-> "copy", at |-> MaxPath + 1, partial |-> FALSE]
    /\ Last.pre.sd.tree["Roms"] = Files(MaxPath, 1)
    /\ Last.pre.sd.tree["Saves"] = Files(MaxPath, 1)
    /\ ~HasEntry(Last.pre.backup_dir, Last.ret[2])
    /\ ~Last.ret[1]
    /\ backup_dir.entries[Last.ret[2]].tree["Roms"] = Files(MaxPath, 1)
    /\ rglob_files(backup_dir.entries[Last.ret[2]].tree["Saves"]) = {}
    /\ backup_dir.entries[Last.ret[2]].info = NoInfo

\* Call r reached the write of backup_info.json and the write failed.
SidecarWriteFailed(r) ==
    /\ ValidCall(r.pre.sd, r.args.categories)
    /\ r.args.fault.kind \in {"none", "info"}
    /\ (r.args.fault.kind = "info" \/ ~utf8_encodable(r.args.description))

\* Call r returned (True, snapshot path, the summary message with the
\* files and categories copied) and the snapshot directory holds every
\* file of the copy plan.
CompletedAllTheSame(r) ==
    LET done == Present(r.args.categories, r.pre.sd.tree)
        name == r.ret[2]
    IN  /\ r.raised = ""
        /\ r.ret[1]
        /\ name = dir_name(r.pre.clock, _detect_sd_state(r.pre.sd),
                           _detect_onion_version(r.pre.sd))
        /\ r.ret[3] = Msg("Backup completed", FilesOfEntries(done, r.pre.sd.tree),
                          Len(done), <<>>)
        /\ HasEntry(r.post.backup_dir, name)
        /\ \A j \in 1..Len(done) :
             LET c == BACKUP_CATEGORIES[done[j]].path
             IN  /\ r.post.backup_dir.entries[name].tree[c].exists
                 /\ \A p \in rglob_files(r.pre.sd.tree[c]) :
                      r.post.backup_dir.entries[name].tree[c].files[p]
                        = r.pre.sd.tree[c].files[p]

\* C6: when writing backup_info.json fails after every category was
\* copied, create_backup still returns success with the snapshot path and
\* the normal summary message, and the copied tree stays on disk.
C6_SidecarFailure ==
    \A i \in CallsOf("create_backup") :
        SidecarWriteFailed(log[i]) => CompletedAllTheSame(log[i])

\* The same for the write failures that are an OSError (the file cannot be
\* opened, the disk is full).
C6_SidecarOSError ==
    \A i \in CallsOf("create_backup") :
        (SidecarWriteFailed(log[i])
         /\ write_text_raises([description |-> log[i].args.description],
                              log[i].args.fault) = "OSError")
        => CompletedAllTheSame(log[i])

\* The snapshot directory that create_backup record i returned, as it is
\* in a backup root.
SnapshotIn(root, i) == root.entries[log[i].ret[2]]

\* C7: once create_backup has returned success for a snapshot, no later
\* create_backup or restore_backup call changes the snapshot directory or
\* its sidecar.
C7_SnapshotFrozen ==
    \A i \in CallsOf("create_backup") :
        (log[i].raised = "" /\ log[i].ret[1]) =>
            \A j \in (i + 1)..Len(log) :
                SnapshotIn(log[j].post.backup_dir, i) = SnapshotIn(log[i].post.backup_dir, i)

\* A later restore_backup, and a later create_backup that computes
\* another directory name, leave the snapshot as they found it.
C7_OtherNames ==
    \A i \in CallsOf("create_backup") :
        (log[i].raised = "" /\ log[i].ret[1]) =>
            \A j \in (i + 1)..Len(log) :
                (log[j].op = "restore_backup"
                 \/ dir_name(log[j].pre.clock, _detect_sd_state(log[j].pre.sd),
                             _detect_onion_version(log[j].pre.sd)) # log[i].ret[2])
                => SnapshotIn(log[j].post.backup_dir, i) = SnapshotIn(log[j].pre.backup_dir, i)

\* The directories of a backup root whose sidecar holds a JSON object.
ValidSnapshots(root) ==
    IF ~root.exists THEN {}
    ELSE {n \in DOMAIN root.entries :
            root.entries[n].isdir /\ root.entries[n].info.kind = "object"}

\* The entries of a backup root whose sidecar exists and is unreadable or
\* malformed.
MalformedSnapshots(root) ==
    IF ~root.exists THEN {}
    ELSE {n \in DOMAIN root.entries :
            /\ root.entries[n].isdir
            /\ root.entries[n].info.kind \in
                 {"unreadable", "undecodable", "invalid", "nonobject"}}

\* The call returned one record per valid snapshot of the root, in
\* descending order of directory name.
ListsValidSnapshots(r) ==
    /\ r.raised = ""
    /\ Len(r.ret) = Cardinality(ValidSnapshots(r.pre.backup_dir))
    /\ {r.ret[i].path : i \in 1..Len(r.ret)} = ValidSnapshots(r.pre.backup_dir)
    /\ \A i, j \in 1..Len(r.ret) : i < j => name_less(r.ret[j].path, r.ret[i].path)

\* C8: on a backup root whose entries are snapshot directories with a valid
\* sidecar, directories without a sidecar and plain files, list_backups
\* returns exactly one record per valid snapshot, in descending order of
\* directory name; a root that does not exist yields no record.
C8_ListsValid ==
    \A i \in CallsOf("list_backups") :
        /\ MalformedSnapshots(log[i].pre.backup_dir) = {} => ListsValidSnapshots(log[i])
        /\ ~log[i].pre.backup_dir.exists => log[i].ret = <<>> /\ log[i].raised = ""

\* C8 witness: a root with two valid snapshots and, between them in name
\* order, a directory without a sidecar; the two are listed newest first.
C8_Witness ==
    /\ pc = "called"
    /\ Last.op = "list_backups"
    /\ DOMAIN backup_dir.entries = {RootNames[1], RootNames[2], RootNames[3]}
    /\ ValidSnapshots(backup_dir) = {RootNames[1], RootNames[3]}
    /\ backup_dir.entries[RootNames[2]] = NewSnapshot
    /\ Len(Last.ret) = 2
    /\ Last.ret[1].path = RootNames[3]
    /\ Last.ret[2].path = RootNames[1]
    /\ Last.ret[1].state = "onion"

\* C9: a sidecar that is unreadable, is not UTF-8, is not JSON or is not a
\* JSON object makes list_backups leave out that snapshot only: the call
\* does not raise and returns the records of every valid snapshot.
C9_MalformedSkipped ==
    \A i \in CallsOf("list_backups") : ListsValidSnapshots(log[i])

\* The same for the sidecars that cannot be read (OSError) or hold text
\* that is not JSON.
C9_CaughtKinds ==
    \A i \in CallsOf("list_backups") :
        (\A n \in MalformedSnapshots(log[i].pre.backup_dir) :
            log[i].pre.backup_dir.entries[n].info.kind \in {"unreadable", "invalid"})
        => ListsValidSnapshots(log[i])

\* The value a record has for a key: the sidecar's when it has the key,
\* else the given default.
FieldsFrom(rec, obj, defaults) ==
    \A key \in SummaryKeys :
        IF key \in DOMAIN obj THEN rec[key] = obj[key] ELSE rec[key] = defaults[key]

\* Every record of call r has the sidecar's values, and the given defaults
\* for the keys the sidecar lacks; and the call does not raise when every
\* sidecar of the root is a JSON object.
MissingKeysDefault(r, defaults) ==
    /\ MalformedSnapshots(r.pre.backup_dir) = {} => r.raised = ""
    /\ \A j \in 1..Len(r.ret) :
         FieldsFrom(r.ret[j], r.pre.backup_dir.entries[r.ret[j].path].info.obj, defaults)

\* C10 as claimed: a key the sidecar object lacks is reported as the empty
\* string for date, description, state and version and as the empty list
\* for categories.
C10_EmptyDefaults_Original ==
    \A i \in CallsOf("list_backups") :
        MissingKeysDefault(log[i],
            [date |-> EmptyText, description |-> EmptyText, state |-> "",
             version |-> EmptyText, categories |-> <<>>])

\* C10 amended: a key the sidecar object lacks is reported as the empty
\* string for date, description and version, as "unknown" for state and as
\* the empty list for categories.
C10_Defaults ==
    \A i \in CallsOf("list_backups") :
        MissingKeysDefault(log[i],
            [date |-> EmptyText, description |-> EmptyText, state |-> "unknown",
             version |-> EmptyText, categories |-> <<>>])

\* C10 witness: a sidecar that is the object {} is listed with every field
\* at its default.
C10_Witness ==
    /\ pc = "called"
    /\ Last.op = "list_backups"
    /\ Len(Last.ret) = 1
    /\ backup_dir.entries[Last.ret[1].path].info = ObjectInfo(<<>>)
    /\ Last.ret[1].state = "unknown"
    /\ Last.ret[1].version = EmptyText
    /\ Last.ret[1].categories = <<>>

\* The state a record's card is classified as, with the stock marker given.
Classified(card, stock_marker) ==
    IF card.tmp_update THEN "onion"
    ELSE IF stock_marker THEN "stock"
    ELSE "unknown"

\* Every detector call returned the state the card classifies as, and every
\* successful create_backup put that state in the directory name and in
\* the sidecar.
DetectsAs(classify(_)) ==
    /\ \A i \in CallsOf("_detect_sd_state") : log[i].ret = classify(log[i].pre.sd)
    /\ \A i \in CallsOf("create_backup") :
         (log[i].raised = "" /\ log[i].ret[1]) =>
            /\ log[i].ret[2][2] = classify(log[i].pre.sd)
            /\ SidecarOf(log[i]).obj.state = classify(log[i].pre.sd)

ByAppDirectory(card) == Classified(card, card.miyoo_app)
ByMiyooDirectory(card) == Classified(card, card.miyoo)

\* C11 as claimed: the detector gives "onion" exactly when .tmp_update
\* exists, otherwise "stock" exactly when miyoo/app exists, and "unknown"
\* whenever neither of the two is present.
C11_State_Original == DetectsAs(ByAppDirectory)

\* C11 amended: the detector gives "onion" exactly when .tmp_update exists,
\* otherwise "stock" exactly when the directory miyoo exists (with or
\* without miyoo/app in it), and "unknown" when neither .tmp_update nor
\* miyoo is present.
C11_State == DetectsAs(ByMiyooDirectory)

\* C11 witness: a card with both .tmp_update and miyoo/app is backed up as
\* an Onion card.
C11_Witness ==
    /\ pc = "called"
    /\ Last.op = "create_backup"
    /\ Last.pre.sd.tmp_update
    /\ Last.pre.sd.miyoo_app
    /\ Last.ret[1]
    /\ Last.ret[2][2] = "onion"

\* The candidates of a card that are readable files with a content that is
\* not empty once stripped.
Qualifying(card) ==
    {i \in 1..3 : /\ card.vfiles[i].isfile
                  /\ card.vfiles[i].readable
                  /\ strip(card.vfiles[i].text) # <<>>}

\* The probe returned the stripped content of the first qualifying
\* candidate, the empty string when there is none.
ReturnsFirstQualifying(r) ==
    IF Qualifying(r.pre.sd) = {} THEN r.ret = EmptyText
    ELSE \E i \in Qualifying(r.pre.sd) :
            /\ \A j \in Qualifying(r.pre.sd) : i <= j
            /\ r.ret = strip(r.pre.sd.vfiles[i].text)

\* C12: the version probe returns the stripped content of the first
\* candidate, in the order onionVersion/version.txt, config/version.txt,
\* version.txt, that is a readable file with content, the empty string
\* when there is none, and never raises.
C12_Probe ==
    \A i \in CallsOf("_detect_onion_version") :
        log[i].raised = "" /\ ReturnsFirstQualifying(log[i])

\* The same for the cards whose candidate files all hold UTF-8 text.
C12_ProbeDecodable ==
    \A i \in CallsOf("_detect_onion_version") :
        (\A j \in 1..3 : utf8_decodable(log[i].pre.sd.vfiles[j].text))
        => log[i].raised = "" /\ ReturnsFirstQualifying(log[i])

\* The snapshot path of restore call r is a directory of the backup root.
SnapshotIsDir(r) ==
    /\ HasEntry(r.pre.backup_dir, r.args.backup_path)
    /\ r.pre.backup_dir.entries[r.args.backup_path].isdir

\* C13: restore_backup validates before any side effect.  When the
\* snapshot path is no directory, the target mount is no directory, a key
\* is unknown or the list is empty, it returns (False, message), emits no
\* progress event, and leaves the target mount and the backup root exactly
\* as they were.
C13_RestoreValidates ==
    \A i \in CallsOf("restore_backup") :
        LET r == log[i]
        IN  (\/ ~SnapshotIsDir(r)
             \/ ~r.pre.sd.mounted
             \/ ~KnownKeys(r.args.categories)
             \/ r.args.categories = <<>>)
            => /\ r.raised = ""
               /\ ~r.ret[1]
               /\ r.ret[2].text # ""
               /\ r.events = <<>>
               /\ r.post.sd = r.pre.sd
               /\ r.post.backup_dir = r.pre.backup_dir
               /\ (i = Len(log) => sd = r.pre.sd /\ backup_dir = r.pre.backup_dir)

\* C13 witness: a restore of an existing snapshot that holds ROMs onto a
\* mounted card, asked with an unknown key after a known one, is refused
\* and the card keeps its files.
C13_Witness ==
    /\ pc = "called"
    /\ Last.op = "restore_backup"
    /\ SnapshotIsDir(Last)
    /\ rglob_files(backup_dir.entries[Last.args.backup_path].tree["Roms"]) # {}
    /\ Last.pre.sd.mounted
    /\ Last.args.categories = <<"roms", "cheats">>
    /\ ~Last.ret[1]
    /\ sd = Last.pre.sd
    /\ rglob_files(sd.tree["Roms"]) = {}

\* The version the probe finds on a card whose candidates are readable
\* text: the stripped content of the first qualifying candidate.
VersionOn(card) ==
    IF Qualifying(card) = {} THEN EmptyText
    ELSE strip(card.vfiles[CHOOSE i \in Qualifying(card) :
                              \A j \in Qualifying(card) : i <= j].text)

\* v is the version with every "/", "\" and space replaced by "_".
IsSanitised(v, version) ==
    /\ Len(v) = Len(version)
    /\ \A i \in 1..Len(version) :
         v[i] = (IF version[i] = "/" \/ version[i] = "\\" \/ version[i] = " "
                 THEN "_" ELSE version[i])

\* C14: the snapshot directory of create_backup is named
\* <timestamp>_<state> when the detected version is empty and
\* <timestamp>_<state>_<v> otherwise, with <v> the version with "/", "\"
\* and space replaced by "_"; it holds no "/" and is an entry of the backup
\* root itself.
C14_DirectoryName ==
    \A i \in CallsOf("create_backup") :
        LET r    == log[i]
            name == r.ret[2]
        IN  name # NoPath =>
            /\ HasEntry(r.post.backup_dir, name)
            /\ r.post.backup_dir.entries[name].isdir
            /\ name[1] = r.pre.clock
            /\ name[2] = ByMiyooDirectory(r.pre.sd)
            /\ IF VersionOn(r.pre.sd) = EmptyText
               THEN Len(name) = 2
               ELSE /\ Len(name) = 3
                    /\ IsSanitised(name[3], VersionOn(r.pre.sd))
                    /\ \A j \in 1..Len(name[3]) : name[3][j] \notin {"/", "\\", " "}

\* C14 witness: the first candidate is unreadable and the second holds
\* " 4 3/x\y"; the snapshot is named <timestamp>_onion_4_3_x_y.
C14_Witness ==
    /\ pc = "called"
    /\ Last.op = "create_backup"
    /\ Last.ret[1]
    /\ ~Last.pre.sd.vfiles[1].readable
    /\ Last.pre.sd.vfiles[2].text = <<" ", "4", " ", "3", "/", "x", "\\", "y", "\n">>
    /\ Last.ret[2] = <<Last.pre.clock, "onion", <<"4", "_", "3", "_", "x", "_", "y">>>>
    /\ DOMAIN backup_dir.entries = {Last.ret[2]}


\* ------------------------------------------------------------ migration
StockSources == {"RetroArch/.retroarch/saves", "RetroArch/.retroarch/states",
                 "Roms", "BIOS", "Imgs"}

\* The recognised directories a stock card holds.
Recognised(card) == {c \in StockSources : card.tree[c].exists}

\* C15: a migration from a stock mount holding none of the five recognised
\* directories onto an Onion mount returns (True, "Nothing to migrate ..."),
\* raises nothing, emits no progress event, and leaves the Onion mount
\* without any new directory or file.
C15_NothingToMigrate ==
    \A i \in CallsOf("migrate_stock_to_onion") :
        LET r == log[i]
        IN  (/\ r.pre.stock_mount.mounted
             /\ r.pre.onion_mount.mounted
             /\ Recognised(r.pre.stock_mount) = {})
            => /\ r.raised = ""
               /\ r.ret[1]
               /\ r.ret[2].text = "Nothing to migrate"
               /\ r.events = <<>>
               /\ r.post.onion_mount = r.pre.onion_mount
               /\ (i = Len(log) => onion_mount = r.pre.onion_mount)

\* C15 witness: a migration from a mounted stock card with no recognised
\* directory onto a mounted, empty Onion card has been made.
C15_Witness ==
    /\ pc = "called"
    /\ Last.op = "migrate_stock_to_onion"
    /\ Last.pre.stock_mount.mounted
    /\ Recognised(Last.pre.stock_mount) = {}
    /\ Last.pre.onion_mount = MigrateCard(<<>>)
    /\ Last.ret[1]

\* C16: when the stock mount's only recognised directory is
\* RetroArch/.retroarch/saves, holding n files, the Onion mount has no
\* Saves/CurrentProfile/saves and no step fails, the migration returns
\* (True, "Migration completed: n files copied."), the Onion mount's
\* Saves/CurrentProfile/saves then holds exactly the stock files under
\* the same relative paths with the same contents, every other directory
\* of the Onion mount is as before, and the stock mount is unchanged.
C16_SavesRemapped ==
    \A i \in CallsOf("migrate_stock_to_onion") :
        LET r     == log[i]
            saves == r.pre.stock_mount.tree["RetroArch/.retroarch/saves"]
        IN  (/\ r.pre.stock_mount.mounted
             /\ r.pre.onion_mount.mounted
             /\ Recognised(r.pre.stock_mount) = {"RetroArch/.retroarch/saves"}
             /\ ~r.pre.onion_mount.tree["Saves/CurrentProfile/saves"].exists
             /\ r.args.fault.kind = "none")
            => /\ r.raised = ""
               /\ r.ret[1]
               /\ r.ret[2].text = "Migration completed"
               /\ r.ret[2].files = Cardinality(rglob_files(saves))
               /\ r.post.onion_mount.tree["Saves/CurrentProfile/saves"] = saves
               /\ \A c \in MigratePaths \ {"Saves/CurrentProfile/saves"} :
                    r.post.onion_mount.tree[c] = r.pre.onion_mount.tree[c]
               /\ r.post.stock_mount = r.pre.stock_mount
               /\ (i = Len(log) => /\ stock_mount = r.pre.stock_mount
                                   /\ onion_mount = r.post.onion_mount)

\* C16 witness: a stock card holding only MaxPath saves has been migrated
\* onto an Onion card that had ROMs but no saves, and the saves arrived.
C16_Witness ==
    /\ pc = "called"
    /\ Last.op = "migrate_stock_to_onion"
    /\ Recognised(Last.pre.stock_mount) = {"RetroArch/.retroarch/saves"}
    /\ Cardinality(rglob_files(Last.pre.stock_mount.tree["RetroArch/.retroarch/saves"]))
         = MaxPath
    /\ Last.pre.onion_mount.tree["Roms"].exists
    /\ ~Last.pre.onion_mount.tree["Saves/CurrentProfile/saves"].exists
    /\ Last.args.fault.kind = "none"
    /\ Cardinality(rglob_files(onion_mount.tree["Saves/CurrentProfile/saves"])) = MaxPath
    /\ Last.ret[2].files = MaxPath

\* --------------------------------------------------------- get_backup_size
KnownOf(categories) == SelectSeq(categories, LAMBDA k : k \in CategoryKeys)

\* The files a call inspects: those under the recognised requested
\* categories whose directory exists in the snapshot, entry by entry.
Inspected(r) ==
    IF HasEntry(r.pre.backup_dir, r.args.backup_path)
    THEN CopyPlan(KnownOf(r.args.categories),
                  r.pre.backup_dir.entries[r.args.backup_path].tree)
    ELSE <<>>

RECURSIVE SizesExcept(_, _, _)
SizesExcept(plan, tree, skipped) ==
    IF plan = <<>> THEN 0
    ELSE (IF Len(plan) = skipped THEN 0
          ELSE st_size(tree[plan[Len(plan)][1]].files[plan[Len(plan)][2]]))
         + SizesExcept(SubSeq(plan, 1, Len(plan) - 1), tree, skipped)

\* The sum of the sizes of the inspected files, the one whose stat fails
\* (if any) counting zero.
ExpectedSize(r) ==
    IF Inspected(r) = <<>> THEN 0
    ELSE SizesExcept(Inspected(r),
                     r.pre.backup_dir.entries[r.args.backup_path].tree,
                     r.args.stat.at)

\* C17: get_backup_size never raises and returns the sum of the sizes of the
\* files under the requested categories present in the snapshot: absent
\* and unrecognised categories contribute zero, and so does a file whose
\* stat fails.
C17_BackupSize ==
    \A i \in CallsOf("get_backup_size") :
        /\ log[i].raised = ""
        /\ log[i].ret = ExpectedSize(log[i])

\* C17, for the failures the try block covers: when no item.is_file() call
\* fails, the call does not raise and returns that sum.
C17_SizeWhenTypeKnown ==
    \A i \in CallsOf("get_backup_size") :
        log[i].args.stat.kind # "is_file"
        => /\ log[i].raised = ""
           /\ log[i].ret = ExpectedSize(log[i])

\* ------------------------------------------------- failures at the boundary
Operations == {"create_backup", "restore_backup", "migrate_stock_to_onion"}

\* The calls of the three operations in which the named filesystem step
\* fails after validation has passed.
FailingCalls(kinds) ==
    {i \in 1..Len(log) : log[i].op \in Operations /\ log[i].args.fault.kind \in kinds}

StructuredFailure(r) ==
    /\ r.raised = ""
    /\ ~r.ret[1]
    /\ r.ret[Len(r.ret)].text # ""
    /\ r.ret[Len(r.ret)].detail # <<>>

\* C18: whichever filesystem step of create_backup, restore_backup or
\* migrate_stock_to_onion fails once validation has passed (making the
\* snapshot directory, counting the files, copying a file), no exception
\* reaches the caller: the call returns a tuple whose flag is False and
\* whose message names the cause.
C18_NoRawException ==
    \A i \in FailingCalls({"mkdir", "count", "copy"}) : StructuredFailure(log[i])

\* C18, for the steps inside a try block: a failure making the snapshot
\* directory or copying a file is returned as (False, message).
C18_CaughtSteps ==
    \A i \in FailingCalls({"mkdir", "copy"}) : StructuredFailure(log[i])

\* ------------------------------------------------------ progress reporting
\* C19: a call of copy_tree_with_progress that returns, on a source
\* directory with n regular files, calls the progress sink exactly n times,
\* the k-th time with the caller's label, the k-th file's relative path
\* (in sorted order), the count _files_done + k and the given _total_files,
\* and at that moment the destination already holds that file with the
\* source's content; it returns n.  When the source is no directory it
\* returns 0, calls the sink never and leaves the destination as it was,
\* missing if it was missing.
C19_Progress ==
    \A i \in CallsOf("copy_tree_with_progress") :
        LET r     == log[i]
            files == sorted(rglob_files(r.pre.src))
            n     == Len(files)
        IN  /\ is_dir(r.pre.src) /\ r.raised = ""
               => /\ r.ret = n
                  /\ Len(r.events) = n
                  /\ Len(r.observed) = n
                  /\ \A k \in 1..n :
                        /\ r.events[k] = <<r.args._category, files[k],
                                           r.args._files_done + k,
                                           r.args._total_files>>
                        /\ r.observed[k].files[files[k]] = r.pre.src.files[files[k]]
                  /\ r.post.src = r.pre.src
            /\ ~is_dir(r.pre.src)
               => /\ r.raised = ""
                  /\ r.ret = 0
                  /\ r.events = <<>>
                  /\ r.post.dst = r.pre.dst

\* C19 witness: a call with MaxPath source files, a label, a positive
\* _files_done and a _total_files that is not their sum has returned
\* MaxPath after as many sink calls, into a destination that held other
\* content at the same paths.
C19_Witness ==
    /\ pc = "called"
    /\ Last.op = "copy_tree_with_progress"
    /\ Cardinality(rglob_files(Last.pre.src)) = MaxPath
    /\ Last.pre.dst = Files(MaxPath, 2)
    /\ Last.args._files_done = MaxDone
    /\ Last.args._total_files = 1
    /\ Last.raised = ""
    /\ Last.ret = MaxPath
    /\ Len(Last.events) = MaxPath
    /\ Last.events[MaxPath][3] = MaxDone + MaxPath

\* C19 witness for the missing source: the call returned 0 and the
\* destination directory is still missing.
C19_WitnessMissing ==
    /\ pc = "called"
    /\ Last.op = "copy_tree_with_progress"
    /\ ~is_dir(Last.pre.src)
    /\ ~is_dir(Last.pre.dst)
    /\ ~is_dir(onion_mount.tree["Roms"])
    /\ Last.ret = 0

\* ---------------------------------------------------------------- extraction
\* A path is the mount root or lies beneath it.
IsWithin(path, mount) ==
    /\ Len(path) >= Len(mount)
    /\ SubSeq(path, 1, Len(mount)) = mount

\* What a call created or wrote: the entries of the filesystem afterwards
\* that were not there, or not so, before.
Written(r) == {e.path : e \in r.post.disk \ r.pre.disk}

\* C20: extract_to_sd creates and writes nothing outside the mount point:
\* whatever the archive and its member names, every directory or file the
\* call creates or writes is the mount root or lies beneath it.
C20_StaysInMount ==
    \A i \in CallsOf("extract_to_sd") :
        \A path \in Written(log[i]) : IsWithin(path, log[i].args.sd_mount_point)

\* C20, as the guard has it: the text of every path created or written
\* starts with the text of the mount point.
C20_TextPrefix ==
    \A i \in CallsOf("extract_to_sd") :
        \A path \in Written(log[i]) :
            startswith(str(path), str(log[i].args.sd_mount_point))

\* C20, away from siblings: a member whose resolved target does not even
\* share the mount point's text as a prefix (a name climbing to another
\* directory, an absolute name elsewhere) is skipped without a progress
\* event.
C20_SkipsForeign ==
    \A i \in CallsOf("extract_to_sd") :
        \A k \in 1..Len(log[i].events) :
            startswith(str(resolve(joinpath(log[i].args.sd_mount_point,
                                            log[i].events[k][1]))),
                       str(log[i].args.sd_mount_point))

\* ------------------------------------------------------- order of categories
\* The files create_backup copies for a list, in order, each with the key
\* of its entry: for each entry whose source directory exists, its files in
\* sorted order.
RECURSIVE KeyPlan(_, _)
KeyPlan(categories, tree) ==
    IF categories = <<>> THEN <<>>
    ELSE LET files == sorted(rglob_files(tree[BACKUP_CATEGORIES[Head(categories)].path]))
         IN  [j \in 1..Len(files) |-> <<Head(categories), files[j]>>]
             \o KeyPlan(Tail(categories), tree)

\* The category and file of each progress event of a call, in order.
Reported(r) == [k \in 1..Len(r.events) |-> <<r.events[k][1], r.events[k][2]>>]

IsPrefix(a, b) == Len(a) <= Len(b) /\ a = SubSeq(b, 1, Len(a))

\* C25: create_backup copies the categories in the order of the caller's
\* list: the files it copies are, in order, the files of the list's entries
\* whose source directory exists, entry after entry (all of them when the
\* call succeeds, a prefix when a copy fails); and the categories recorded
\* in the sidecar of a successful call are the caller's list restricted to
\* those entries, in the same order.
C25_CallerOrder ==
    \A i \in CallsOf("create_backup") :
        LET r    == log[i]
            plan == KeyPlan(r.args.categories, r.pre.sd.tree)
        IN  (ValidCall(r.pre.sd, r.args.categories) /\ r.raised = "")
            => /\ IsPrefix(Reported(r), plan)
               /\ r.ret[1] => Reported(r) = plan
               /\ (r.ret[1] /\ r.args.fault.kind = "none")
                  => /\ SidecarOf(r).kind = "object"
                     /\ SidecarOf(r).obj.categories =
                          Present(r.args.categories, r.pre.sd.tree)

\* C25 witness: a successful backup of Saves then Roms, both holding
\* files, copied Saves first and recorded <<"saves", "roms">>.
C25_Witness ==
    /\ pc = "called"
    /\ Last.op = "create_backup"
    /\ Last.args.categories = <<"saves", "roms">>
    /\ Last.ret[1]
    /\ Last.args.fault = NoFault
    /\ rglob_files(Last.pre.sd.tree["Saves"]) # {}
    /\ rglob_files(Last.pre.sd.tree["Roms"]) # {}
    /\ Last.events[1][1] = "saves"
    /\ Last.events[Len(Last.events)][1] = "roms"
    /\ SidecarOf(Last).obj.categories = <<"saves", "roms">>

\* ------------------------------------------------------------ progress totals
CopyingCalls == {i \in 1..Len(log) : log[i].op \in Operations}

RECURSIVE FilesOfDirs(_, _)
FilesOfDirs(dirs, tree) ==
    IF dirs = {} THEN 0
    ELSE LET d == CHOOSE x \in dirs : TRUE
         IN  Cardinality(rglob_files(tree[d])) + FilesOfDirs(dirs \ {d}, tree)

\* The number of files under all the sources of a call that passed
\* validation: the present entries of the list on the card (create_backup)
\* or in the snapshot (restore_backup), the recognised directories of the
\* stock card (migrate_stock_to_onion).
SourceTotal(r) ==
    CASE r.op = "create_backup" ->
            FilesOfEntries(Present(r.args.categories, r.pre.sd.tree), r.pre.sd.tree)
      [] r.op = "restore_backup" ->
            LET snap == r.pre.backup_dir.entries[r.args.backup_path].tree
            IN  FilesOfEntries(Present(r.args.categories, snap), snap)
      [] r.op = "migrate_stock_to_onion" ->
            FilesOfDirs(Recognised(r.pre.stock_mount), r.pre.stock_mount.tree)

\* C26: in create_backup, restore_backup and migrate_stock_to_onion every
\* progress event carries the number of files under all the sources of the
\* call, the k-th event of the call carries files-done k (so the counts
\* run 1, 2, 3, ... across categories and never pass the total), and the
\* events of a successful call end at the total.
C26_ProgressTotals ==
    \A i \in CopyingCalls :
        LET r == log[i]
        IN  (r.events # <<>> \/ r.ret[1])
            => /\ \A k \in 1..Len(r.events) :
                    /\ r.events[k][4] = SourceTotal(r)
                    /\ r.events[k][3] = k
               /\ Len(r.events) <= SourceTotal(r)
               /\ r.ret[1] => Len(r.events) = SourceTotal(r)

\* C26 witness: a successful migration of saves and ROMs, three files in
\* two jobs, whose last event reads three of three.
C26_Witness ==
    /\ pc = "called"
    /\ Last.op = "migrate_stock_to_onion"
    /\ Last.ret[1]
    /\ Recognised(Last.pre.stock_mount) = {"RetroArch/.retroarch/saves", "Roms"}
    /\ Len(Last.events) = MaxPath + 1
    /\ Last.events[1][1] # Last.events[MaxPath + 1][1]
    /\ Last.events[MaxPath + 1][3] = MaxPath + 1
    /\ Last.events[MaxPath + 1][4] = MaxPath + 1

\* C26 witness for a backup: a successful backup of two categories with
\* files whose events run on across the category boundary.
C26_WitnessBackup ==
    /\ pc = "called"
    /\ Last.op = "create_backup"
    /\ Last.ret[1]
    /\ Len(Last.events) >= 2
    /\ Last.events[1][1] # Last.events[Len(Last.events)][1]
    /\ Last.events[Len(Last.events)][3] = Last.events[1][4]

\* ------------------------------------------------------------------ no rollback
\* The copies a call makes, in order: source directory, destination
\* directory and relative path of each file.
RECURSIVE JobPlan(_, _)
JobPlan(jobs, tree) ==
    IF jobs = <<>> THEN <<>>
    ELSE LET files == sorted(rglob_files(tree[Head(jobs).src]))
         IN  [j \in 1..Len(files) |->
                [src |-> Head(jobs).src, dst |-> Head(jobs).dst, file |-> files[j]]]
             \o JobPlan(Tail(jobs), tree)

CategoryJobs(categories) ==
    [k \in 1..Len(categories) |-> [src |-> BACKUP_CATEGORIES[categories[k]].path,
                                   dst |-> BACKUP_CATEGORIES[categories[k]].path]]

\* The tree a call reads, and the tree it writes before and after the call.
SourceTree(r) ==
    CASE r.op = "create_backup"  -> r.pre.sd.tree
      [] r.op = "restore_backup" -> r.pre.backup_dir.entries[r.args.backup_path].tree
      [] r.op = "migrate_stock_to_onion" -> r.pre.stock_mount.tree

TargetBefore(r) ==
    CASE r.op = "create_backup"  -> TreeBefore(r, r.ret[2])
      [] r.op = "restore_backup" -> r.pre.sd.tree
      [] r.op = "migrate_stock_to_onion" -> r.pre.onion_mount.tree

TargetAfter(r) ==
    CASE r.op = "create_backup"  -> r.post.backup_dir.entries[r.ret[2]].tree
      [] r.op = "restore_backup" -> r.post.sd.tree
      [] r.op = "migrate_stock_to_onion" -> r.post.onion_mount.tree

PlanOf(r) ==
    IF r.op = "migrate_stock_to_onion"
    THEN JobPlan([k \in 1..Len(copy_jobs(r.pre.stock_mount)) |->
                    [src |-> copy_jobs(r.pre.stock_mount)[k].src,
                     dst |-> copy_jobs(r.pre.stock_mount)[k].dst]],
                 SourceTree(r))
    ELSE JobPlan(CategoryJobs(r.args.categories), SourceTree(r))

\* C27: when the n-th file copy of create_backup, restore_backup or
\* migrate_stock_to_onion fails, the call returns failure and nothing is
\* rolled back or copied further: every file copied before the failure is
\* at its destination with the source's content (the failing file's own
\* destination may be left truncated), and every other path of the
\* destination, so every file after the failing one and every later
\* category or job, is as it was before the call.
C27_NoRollback ==
    \A i \in CopyingCalls :
        LET r    == log[i]
            plan == PlanOf(r)
            n    == r.args.fault.at
        IN  (r.args.fault.kind = "copy" /\ r.raised = "")
            => /\ ~r.ret[1]
               /\ Len(r.events) = n - 1
               /\ \A c \in DOMAIN TargetAfter(r) : \A p \in Paths :
                    LET reached ==
                            IF \E j \in 1..(n - 1) : plan[j].dst = c /\ plan[j].file = p
                            THEN LET j == CHOOSE j \in 1..(n - 1) :
                                            plan[j].dst = c /\ plan[j].file = p
                                 IN  SourceTree(r)[plan[j].src].files[p]
                            ELSE TargetBefore(r)[c].files[p]
                    IN  IF plan[n].dst = c /\ plan[n].file = p
                        THEN TargetAfter(r)[c].files[p] \in {reached, PartialFile}
                        ELSE TargetAfter(r)[c].files[p] = reached

\* C27 witness: a restore of ROMs then saves whose first save fails after
\* every ROM was copied: the ROMs are on the card, no save has arrived.
C27_Witness ==
    /\ pc = "called"
    /\ Last.op = "restore_backup"
    /\ Last.args.categories = <<"roms", "saves">>
    /\ Last.args.fault.kind = "copy"
    /\ Last.args.fault.at >= 2
    /\ PlanOf(Last)[Last.args.fault.at].dst = "Saves"
    /\ ~Last.ret[1]
    /\ rglob_files(Last.pre.sd.tree["Roms"]) = {}
    /\ sd.tree["Roms"] = SourceTree(Last)["Roms"]
    /\ rglob_files(sd.tree["Roms"]) # {}
    /\ \A p \in Paths : sd.tree["Saves"].files[p] \in {NoFile, PartialFile}

\* C27 witness for a migration: the first ROM fails after the saves were
\* copied to Saves/CurrentProfile/saves.
C27_WitnessMigrate ==
    /\ pc = "called"
    /\ Last.op = "migrate_stock_to_onion"
    /\ Last.args.fault.kind = "copy"
    /\ Last.args.fault.at >= 2
    /\ PlanOf(Last)[Last.args.fault.at].dst = "Roms"
    /\ ~Last.ret[1]
    /\ ~Last.pre.onion_mount.tree["Saves/CurrentProfile/saves"].exists
    /\ rglob_files(onion_mount.tree["Saves/CurrentProfile/saves"]) # {}
    /\ onion_mount.tree["Roms"].files = Last.pre.onion_mount.tree["Roms"].files

\* ------------------------------------------------------------ detector agreement
\* C30: whenever sd_manager.detect_sd_state gives "onion", "stock" or
\* "unknown" for a mount root, backup_restore._detect_sd_state gives the
\* same value for it.
C30_DetectorsAgree ==
    \A i \in CallsOf("detect_sd_state") :
        log[i].ret \in {"onion", "stock", "unknown"} => log[i].backup = log[i].ret

\* C30, for roots that can be listed and whose .tmp_update and miyoo
\* entries, if any, are directories: the two detectors agree whenever
\* sd_manager's does not answer "empty".
C30_AgreeOnDirectories ==
    \A i \in CallsOf("detect_sd_state") :
        LET r == log[i]
        IN  (/\ r.args.listable
             /\ kind_of(r.pre.disk, Append(MountPoint, <<".tmp_update">>)) # "file"
             /\ kind_of(r.pre.disk, Append(MountPoint, <<"miyoo">>)) # "file"
             /\ r.ret # "empty")
            => r.backup = r.ret

\* ------------------------------------------------------------------ packages
RomsDir == Append(MountPoint, <<"Roms">>)

Under(fs, top) == {e \in fs : IsUnder(e.path, top)}

\* C21: uninstall_package never removes ROM files.  For every package name
\* and type passed, everything under Roms/ is after the call as it was
\* before, and whatever the call removed lay in the type directory of the
\* package.
C21_RomsKept ==
    \A i \in CallsOf("uninstall_package") :
        LET r == log[i]
        IN  /\ Under(r.post.disk, RomsDir) = Under(r.pre.disk, RomsDir)
            /\ \A e \in r.pre.disk \ r.post.disk :
                 IsUnder(e.path,
                         Append(MountPoint, <<_resolve_type_dir(r.args.package_type)>>))

\* C21, for names that are the name of one directory: only the package
\* directory is removed and Roms/ is unchanged.
C21_PlainNames ==
    \A i \in CallsOf("uninstall_package") :
        LET r == log[i]
        IN  (Len(r.args.package_name) = 1 /\ r.args.package_name[1] # DotDot)
            => /\ Under(r.post.disk, RomsDir) = Under(r.pre.disk, RomsDir)
               /\ \A e \in r.pre.disk \ r.post.disk :
                    IsUnder(e.path,
                            MountPoint \o <<<<_resolve_type_dir(r.args.package_type)>>>>
                                       \o r.args.package_name)
               /\ r.post.disk \subseteq r.pre.disk

\* The names of the packages staged as emulators, installed as emulators,
\* and having a ROM directly in their ROM directory.
StagedEmu(fs) == {n \in {NameOrder[k] : k \in 1..Len(NameOrder)} :
                    kind_of(fs, Staging \o <<<<"Emu">>, n>>) = "dir"}

InstalledEmu(fs) == {n \in {NameOrder[k] : k \in 1..Len(NameOrder)} :
                       kind_of(fs, MountPoint \o <<<<"Emu">>, n>>) = "dir"}

WithRoms(fs) ==
    {n \in {NameOrder[k] : k \in 1..Len(NameOrder)} :
        \E e \in fs : /\ e.kind = "file"
                      /\ Len(e.path) = Len(RomsDir) + 2
                      /\ SubSeq(e.path, 1, Len(RomsDir) + 1) = Append(RomsDir, n)
                      /\ e.path[Len(e.path)][1] # "."}

Qualifying23(fs) == (StagedEmu(fs) \ InstalledEmu(fs)) \cap WithRoms(fs)

\* The tree under top, with paths relative to top.
TreeAt(fs, top) ==
    {[path |-> SubSeq(e.path, Len(top) + 1, Len(e.path)), kind |-> e.kind,
      data |-> e.data] : e \in Under(fs, top)}

Returned(r) == {r.ret[k] : k \in 1..Len(r.ret)}

\* C23: auto_install, when no copy fails, installs exactly the packages
\* staged as emulators that are not installed and have a non-hidden
\* regular file in Roms/<name>, each as a copy of its staged directory,
\* and returns exactly their names; with or without failures it returns
\* the names it installed, adds nothing outside Emu/, so installs no RApp
\* or App package, and leaves every installed package as it was; and a
\* second run right after a run without failures installs nothing and
\* returns the empty list.
C23_AutoInstall ==
    \A i \in CallsOf("auto_install") :
        LET r == log[i]
        IN  /\ r.args.fault = {}
               => /\ Returned(r) = Qualifying23(r.pre.disk)
                  /\ InstalledEmu(r.post.disk)
                       = InstalledEmu(r.pre.disk) \cup Qualifying23(r.pre.disk)
            /\ Len(r.ret) = Cardinality(Returned(r))
            /\ \A n \in Returned(r) :
                 /\ n \notin InstalledEmu(r.pre.disk)
                 /\ TreeAt(r.post.disk, MountPoint \o <<<<"Emu">>, n>>)
                      = TreeAt(r.pre.disk, Staging \o <<<<"Emu">>, n>>)
            /\ \A n \in InstalledEmu(r.pre.disk) :
                 Under(r.post.disk, MountPoint \o <<<<"Emu">>, n>>)
                   = Under(r.pre.disk, MountPoint \o <<<<"Emu">>, n>>)
            /\ r.pre.disk \subseteq r.post.disk
            /\ \A e \in r.post.disk \ r.pre.disk :
                 IsUnder(e.path, Append(MountPoint, <<"Emu">>))
            /\ (i > 1 /\ log[i - 1].op = "auto_install" /\ log[i - 1].args.fault = {})
               => /\ r.ret = <<>>
                  /\ r.post.disk = r.pre.disk

\* C23 witness: on a card with GBA and SFC staged as emulators, SFC also as
\* a RetroArch core, ROMs for both and nothing installed, the first run
\* returned both names and the second run has returned the empty list.
C23_Witness ==
    /\ pc = "again"
    /\ Last.op = "auto_install"
    /\ log[1].op = "auto_install"
    /\ log[1].args.fault = {}
    /\ kind_of(log[1].pre.disk, Staging \o <<<<"RApp">>, <<"SFC">>>>) = "dir"
    /\ InstalledEmu(log[1].pre.disk) = {}
    /\ log[1].ret = <<<<"GBA">>, <<"SFC">>>>
    /\ kind_of(disk, MountPoint \o <<<<"RApp">>, <<"SFC">>>>) = "none"
    /\ Last.ret = <<>>

\* The cases in which install_package refuses: the type is none of emu, rapp
\* and app, the staged directory is missing, or the destination is a
\* directory already.
Refuses28(r) ==
    LET type_dir == _resolve_type_dir(r.args.package_type)
    IN  \/ lower(r.args.package_type) \notin {"emu", "rapp", "app"}
        \/ ~path_is_dir(r.pre.disk, MountPoint,
                        PACKAGE_DATA_DIR \o <<<<type_dir>>>> \o r.args.package_name)
        \/ path_is_dir(r.pre.disk, MountPoint, <<<<type_dir>>>> \o r.args.package_name)

\* The staged directory a call names, where there is one.
SourceOf(r) ==
    walk(r.pre.disk, MountPoint,
         PACKAGE_DATA_DIR \o <<<<_resolve_type_dir(r.args.package_type)>>>>
           \o r.args.package_name)

\* C28, the refusals alone: a refused install returns (False, message) and
\* changes nothing on the card, and an install right after a successful
\* install of the same package is refused.
C28_RefusalChangesNothing ==
    \A i \in CallsOf("install_package") :
        /\ Refuses28(log[i])
           => /\ log[i].ret[1] = FALSE
              /\ log[i].post.disk = log[i].pre.disk
        /\ (i > 1 /\ log[i - 1].op = "install_package" /\ log[i - 1].ret[1])
           => /\ Refuses28(log[i])
              /\ log[i].ret[1] = FALSE

\* C28: install_package returns (False, message) and leaves the card
\* unchanged when the type is unknown, the staged source is missing or the
\* destination exists, so a second install of an installed package changes
\* nothing; and install followed by uninstall of the same package leaves
\* the staged source as it was.
C28_InstallRefusals ==
    /\ C28_RefusalChangesNothing
    /\ \A i \in CallsOf("uninstall_package") :
         (/\ i > 1
          /\ log[i - 1].op = "install_package"
          /\ log[i - 1].args.package_name = log[i].args.package_name
          /\ log[i - 1].args.package_type = log[i].args.package_type
          /\ lower(log[i].args.package_type) \in {"emu", "rapp", "app"}
          /\ SourceOf(log[i - 1]).ok)
         => Under(log[i].post.disk, SourceOf(log[i - 1]).path)
              = Under(log[i - 1].pre.disk, SourceOf(log[i - 1]).path)

\* C28, install then uninstall after an install that succeeded: the staged
\* source is as it was before the install.
C28_SourceKeptAfterInstall ==
    \A i \in CallsOf("uninstall_package") :
        (/\ i > 1
         /\ log[i - 1].op = "install_package"
         /\ log[i - 1].ret[1])
        => Under(log[i].post.disk, SourceOf(log[i - 1]).path)
             = Under(log[i - 1].pre.disk, SourceOf(log[i - 1]).path)

\* The tool and leading arguments of an issued command, pkexec aside.
Tool(t) == IF Head(t.cmd.argv) = "pkexec" THEN Tail(t.cmd.argv) ELSE t.cmd.argv

PowerOff == <<"udisksctl", "power-off", "-b">>

Unmounts == {<<"udisksctl", "unmount", "-b">>, <<"umount">>}

\* Power-off is issued only after each partition mounted at the call was
\* unmounted by a command that succeeded.
UnmountedBeforePowerOff(r) ==
    \A k \in 1..Len(r.cmds) :
        Tool(r.cmds[k]) = PowerOff
        => \A p \in r.pre.mounted :
             \E j \in 1..(k - 1) : /\ Tool(r.cmds[j]) \in Unmounts
                                   /\ r.cmds[j].cmd.target = <<"/dev/", p>>
                                   /\ r.cmds[j].rc = "ok"

\* A mounted partition that neither command unmounts makes the call return
\* failure with neither power-off nor eject issued.
StuckMeansFailure(r) ==
    (\E p \in r.pre.mounted :
        /\ r.args.env.outcome[Cmd(<<"udisksctl", "unmount", "-b">>, <<"/dev/", p>>)] # "ok"
        /\ r.args.env.outcome[Cmd(<<"umount">>, <<"/dev/", p>>)] # "ok")
    => /\ r.raised = ""
       /\ r.ret[1] = FALSE
       /\ \A k \in 1..Len(r.cmds) : Tool(r.cmds[k]) \notin {PowerOff, <<"eject">>}

\* eject is issued only after a power-off that failed.
EjectAfterPowerOff(r) ==
    \A k \in 1..Len(r.cmds) :
        Tool(r.cmds[k]) = <<"eject">>
        => \E j \in 1..(k - 1) : Tool(r.cmds[j]) = PowerOff /\ r.cmds[j].rc = "fail"

\* C22: eject_drive issues power-off only after every mounted partition of
\* the device was unmounted successfully, by udisksctl or by umount; when a
\* partition can be unmounted by neither, it returns failure without
\* issuing power-off or eject; and it issues eject only after power-off
\* has failed.
C22_UnmountBeforePowerOff ==
    \A i \in CallsOf("eject_drive") :
        /\ UnmountedBeforePowerOff(log[i])
        /\ StuckMeansFailure(log[i])
        /\ EjectAfterPowerOff(log[i])

\* C22, when lsblk lists the partitions: the order of the commands is as
\* claimed, and a call in which no command times out returns failure for a
\* partition neither command unmounts.
C22_WhenListed ==
    \A i \in CallsOf("eject_drive") :
        /\ log[i].args.env.lsblk = "ok" => UnmountedBeforePowerOff(log[i])
        /\ (log[i].args.env.lsblk = "ok" /\ log[i].raised = "")
           => StuckMeansFailure(log[i])
        /\ EjectAfterPowerOff(log[i])

\* The k-th number of a version, 0 beyond its last.
Component(v, k) == IF k <= Len(v) THEN v[k] ELSE 0

\* A version is strictly newer than another when, component by component,
\* the first difference is in its favour.
StrictlyNewer(a, b) ==
    \E k \in 1..(Len(a) + Len(b)) :
        /\ \A j \in 1..(k - 1) : Component(a, j) = Component(b, j)
        /\ Component(a, k) > Component(b, k)

LatestOf(r) == first_non_draft(r.args.response.releases)

\* C24: check_for_app_updates gives has_update=True exactly when the
\* version of the first non-draft release is strictly newer than
\* current_version, the dotted numbers compared component by component, so
\* never for two strings that denote the same version, as with and without
\* a leading "v" or a trailing ".0".
C24_StrictlyNewer ==
    \A i \in CallsOf("check_for_app_updates") :
        log[i].ret[1] <=> /\ LatestOf(log[i]) # <<>>
                          /\ StrictlyNewer(_parse_version(LatestOf(log[i])[1].tag_name),
                                           _parse_version(log[i].args.current_version))

\* C24, for versions with the same number of components: has_update is
\* True exactly when the first non-draft release is strictly newer; and
\* has_update=True is never given for an older or a missing release.
C24_SameLength ==
    \A i \in CallsOf("check_for_app_updates") :
        LET mine == _parse_version(log[i].args.current_version)
        IN  /\ log[i].ret[1]
               => /\ LatestOf(log[i]) # <<>>
                  /\ ~StrictlyNewer(mine, _parse_version(LatestOf(log[i])[1].tag_name))
            /\ (LatestOf(log[i]) # <<>>
                /\ Len(_parse_version(LatestOf(log[i])[1].tag_name)) = Len(mine))
               => (log[i].ret[1]
                   <=> StrictlyNewer(_parse_version(LatestOf(log[i])[1].tag_name), mine))

\* What a flag name leads to, with what lies below it.
FlagState(fs, filename) == Under(fs, Append(MountPoint \o CONFIG_DIR, filename))

\* C29: after an apply_settings(sd, S) that returns, get_current_settings
\* gives S[f] for every key f of S; applying S a second time changes
\* nothing on the card; and toggle_setting changes nothing but the named
\* flag file and, when enabling, the missing directories on the way to it,
\* so every other flag file is as it was.
C29_RoundTrip ==
    /\ \A i \in CallsOf("get_current_settings") :
         (i > 1 /\ log[i - 1].op = "apply_settings" /\ log[i - 1].raised = "")
         => \A k \in 1..Len(log[i - 1].args.settings_dict) :
              log[i].ret[log[i - 1].args.settings_dict[k].filename]
                = log[i - 1].args.settings_dict[k].enabled
    /\ \A i \in CallsOf("apply_settings") :
         (i > 1 /\ log[i - 1].op = "apply_settings" /\ log[i - 1].raised = "")
         => /\ log[i].raised = ""
            /\ log[i].post.disk = log[i].pre.disk
    /\ \A i \in CallsOf("toggle_setting") :
         LET r    == log[i]
             flag == Append(MountPoint \o CONFIG_DIR, r.args.filename)
         IN  /\ \A f \in {ConfigFilenames[1], ConfigFilenames[2], OtherFlag}
                        \ {r.args.filename} :
                   FlagState(r.post.disk, f) = FlagState(r.pre.disk, f)
             /\ \A e \in (r.pre.disk \ r.post.disk) \cup (r.post.disk \ r.pre.disk) :
                   \/ e.path = flag /\ e.kind = "file"
                   \/ /\ r.args.enabled
                      /\ e \in r.post.disk
                      /\ e.kind = "dir"
                      /\ e.path \in {MountPoint \o CONFIG_DIR,
                                     Append(MountPoint, CONFIG_DIR[1])}
             /\ (r.raised = "")
                => (path_exists(r.post.disk, MountPoint,
                                Append(CONFIG_DIR, r.args.filename)) <=> r.args.enabled)

\* C29 witness: on a card where one flag is set, the other is not and the
\* config directory holds another file, settings that clear the first and
\* set the second were applied twice and then read back.
C29_Witness ==
    /\ Len(log) = 3
    /\ log[1].op = "apply_settings" /\ log[2].op = "apply_settings"
    /\ log[3].op = "get_current_settings"
    /\ log[1].args.settings_dict = <<[filename |-> ConfigFilenames[1], enabled |-> FALSE],
                                     [filename |-> ConfigFilenames[2], enabled |-> TRUE]>>
    /\ kind_of(log[1].pre.disk, Append(MountPoint \o CONFIG_DIR, ConfigFilenames[1])) = "file"
    /\ kind_of(log[1].pre.disk, Append(MountPoint \o CONFIG_DIR, ConfigFilenames[2])) = "none"
    /\ kind_of(log[1].pre.disk, Append(MountPoint \o CONFIG_DIR, OtherFlag)) = "file"
    /\ log[1].post.disk # log[1].pre.disk
    /\ log[3].ret[ConfigFilenames[1]] = FALSE
    /\ log[3].ret[ConfigFilenames[2]] = TRUE

\* C29 witness for toggle_setting: a flag was enabled on a card without a
\* config directory.
C29_WitnessToggle ==
    /\ log # <<>>
    /\ Last.op = "toggle_setting"
    /\ Last.args.enabled
    /\ Last.raised = ""
    /\ kind_of(Last.pre.disk, Append(MountPoint, CONFIG_DIR[1])) = "none"
    /\ kind_of(disk, Append(MountPoint \o CONFIG_DIR, Last.args.filename)) = "file"

====
